---- MODULE Spec2Model ----
(***************************************************************************)
(* Intent resolution and dispatch layer of ecom_store_manager:             *)
(* ConversationHistory, Orchestrator.handle_user_message,                  *)
(* Orchestrator._check_required_params (src/src/orchestrator.py),          *)
(* MessageManager.get_error_message (src/src/utils/message_manager.py)     *)
(* and LLMClient.query / query_llm (src/tools/llm_api.py).                 *)
(*                                                                         *)
(* A Python str is a sequence of symbols (TLA+ strings); the empty str is  *)
(* the empty sequence.  A Python dict is a function whose DOMAIN is its    *)
(* key set.  A call's outcome is a record [ok, val]: a returned value      *)
(* (ok = TRUE) or a raised exception (ok = FALSE, val = its text).         *)
(***************************************************************************)
EXTENDS Integers, Sequences, FiniteSets, TLC

VARIABLES
    messages,       \* MessageManager.messages: the loaded templates, or {} when loading failed
    history,        \* ConversationHistory.history
    max_history,    \* ConversationHistory.max_history
    clock,          \* number of add_interaction calls so far; the k-th turn's timestamp is k
    pc,             \* position of the handle_user_message call in progress
    user_message,   \* its argument
    context,        \* the context it read from the history
    llm_reply,      \* the outcome of the language-model request of this call
    response_data,  \* the dict obtained from query_llm
    missing_params, \* the result of _check_required_params
    response,       \* the value it returns, or the exception leaving it
    respKind,       \* which return statement produced the response
    handled,        \* the (method, params) the agent's handler body ran with, if it ran
    llmCalls,       \* language-model requests made for this message
    handlerCalls,   \* agent.handle_message calls made for this message
    returned,       \* values handed back to the caller for this message
    chk,            \* a direct _check_required_params call: its arguments and result
    tasks,          \* the handle_user_message coroutines of the event loop, by order of start
    running,        \* the coroutine the event loop is running, 0 when it runs none
    agent_pc,       \* what has been called on the ActionAgent or the bot's MessageManager
    agent_message,  \* the message given to the extractor or to ActionAgent.handle_message
    extractor,      \* the extractor called
    results,        \* what its calls returned, in order
    agent_response, \* what ActionAgent.handle_message returned
    api_calls,      \* the commerce operations invoked, in order
    bot_messages,   \* the bot's MessageManager.messages
    help_category,  \* the argument of get_help_message
    help_response,  \* its outcome
    store_outcome,  \* how the store answered the operation handle_message invoked
    num_requested,  \* the arguments of the direct get_recent_context calls made
    store,          \* the products and categories the store holds
    op_log          \* the operations called on the ActionAgent: arguments, requests, result

vars == <<messages, history, max_history, clock, pc, user_message, context,
          llm_reply, response_data, missing_params, response, respKind, handled,
          llmCalls, handlerCalls, returned, chk, tasks, running, agent_pc,
          agent_message, extractor, results, agent_response, api_calls, bot_messages,
          help_category, help_response, store_outcome, num_requested, store, op_log>>

\* the state of one handle_user_message call made on its own
callVars == <<pc, user_message, context, llm_reply, response_data, missing_params,
              response, respKind, handled, llmCalls, handlerCalls, returned>>

\* the state of the event loop
loopVars == <<tasks, running>>

\* the state of the calls made on the ActionAgent and on the bot's MessageManager
agentVars == <<agent_pc, agent_message, extractor, results, agent_response, api_calls,
               bot_messages, help_category, help_response>>

\* the state of the store and of the operations called on it directly
storeVars == <<store_outcome, num_requested, store, op_log>>

-----------------------------------------------------------------------------
(* Bounds of the model *)

\* add_interaction calls made through handle_user_message in one behaviour
MaxTurns == 2

\* add_interaction calls made on a bare ConversationHistory
MaxAdds == 12

\* handle_user_message calls started on the event loop in one behaviour
MaxCalls == 2

-----------------------------------------------------------------------------
(* Python values *)

None == "None"

EmptyDict == [k \in {} |-> None]

EmptyStr == <<>>

Ok(v) == [ok |-> TRUE, val |-> v]

Raise(e) == [ok |-> FALSE, val |-> e]

Max(a, b) == IF a >= b THEN a ELSE b

Min(a, b) == IF a <= b THEN a ELSE b

\* seq[start:stop] for start >= 0 and any stop (a negative stop counts from the end)
PySlice(seq, start, stop) ==
    LET n  == Len(seq)
        lo == Min(start, n)
        hi == IF stop < 0 THEN Max(n + stop, 0) ELSE Min(stop, n)
    IN  IF hi <= lo THEN <<>> ELSE SubSeq(seq, lo + 1, hi)

\* seq[-k:] : Python reads -0 as 0, so k = 0 selects the whole list
PyLast(seq, k) ==
    LET n     == Len(seq)
        start == IF k > 0 THEN Max(n - k, 0) ELSE 0
    IN  SubSeq(seq, start + 1, n)

\* sep.join(parts) for parts a list of str
RECURSIVE Join(_, _)
Join(parts, sep) ==
    IF Len(parts) = 0 THEN EmptyStr
    ELSE IF Len(parts) = 1 THEN parts[1]
    ELSE parts[1] \o <<sep>> \o Join(Tail(parts), sep)

-----------------------------------------------------------------------------
(* Message templates: src/resources/messages/he/messages.yaml is read by    *)
(* MessageManager._load_messages but is not among the sources; its error    *)
(* categories and placeholders follow spec sections 6 and 7 and             *)
(* tests/test_message_manager.py.  A template is a sequence of segments,    *)
(* <<"lit", text>> or <<"field", name>>.                                    *)

Lit(text) == <<"lit", text>>

Field(name) == <<"field", name>>

ErrorTemplates ==
    [ not_found         |-> << Lit("not found: "), Field("item") >>,
      general_error     |-> << Lit("An error occurred, please try again") >>,
      invalid_format    |-> << Lit("I could not understand the request") >>,
      permission_denied |-> << Lit("Permission denied") >>,
      agent_error       |-> << Lit("The operation failed") >> ]

LoadedMessages == [k \in {"error_messages"} |-> ErrorTemplates]

\* _load_messages: the parsed file, or {} when opening or parsing it raised
LoadOutcome(loaded) == IF loaded THEN LoadedMessages ELSE EmptyDict

\* dict.get(key, default)
DictGet(d, key, default) == IF key \in DOMAIN d THEN d[key] ELSE default

\* str.format(**kwargs): every field is replaced by kwargs[field]; a field
\* missing from kwargs raises KeyError
RECURSIVE Format(_, _)
Format(template, kwargs) ==
    IF Len(template) = 0 THEN Ok(EmptyStr)
    ELSE LET seg  == Head(template)
             rest == Format(Tail(template), kwargs)
         IN  IF seg[1] = "field" /\ seg[2] \notin DOMAIN kwargs
                 THEN Raise(<<"KeyError", seg[2]>>)
             ELSE IF ~rest.ok THEN rest
             ELSE IF seg[1] = "field" THEN Ok(kwargs[seg[2]] \o rest.val)
             ELSE Ok(<<seg[2]>> \o rest.val)

get_error_message(msgs, error_key, kwargs) ==
    LET error_messages == DictGet(msgs, "error_messages", EmptyDict)
        message == DictGet(error_messages, error_key,
                           DictGet(error_messages, "general_error", <<>>))
    IN  Format(message, kwargs)

-----------------------------------------------------------------------------
(* Orchestrator._check_required_params *)

RequiredParams ==
    [ action |->
        [ create_product         |-> <<"name", "price">>,
          update_product_price   |-> <<"product_name", "price">>,
          create_shipping_zone   |-> <<"name", "regions">>,
          add_shipping_method    |-> <<"zone_id", "method_type", "title", "cost">>,
          manage_customer_points |-> <<"customer_id", "action", "points">>,
          refund_payment         |-> <<"order_id", "amount">> ],
      info |->
        [ get_products          |-> <<"page", "per_page">>,
          get_shipping_tracking |-> <<"order_id">>,
          get_customer_orders   |-> <<"customer_id">> ],
      research |->
        [ analyze_competitors |-> <<"market_segment", "product_type">>,
          get_market_trends   |-> <<"market_segment">> ] ]

\* the test of line 173 for one parameter
IsMissingNoNullTest(param, params) == param \notin DOMAIN params

IsMissing(param, params) ==
    param \notin DOMAIN params \/ params[param] = None

\* the loop of lines 171-176
RECURSIVE CollectMissing(_, _, _)
CollectMissing(required, params, missing) ==
    IF Len(required) = 0 THEN missing
    ELSE CollectMissing(Tail(required), params,
                        IF IsMissing(Head(required), params)
                            THEN Append(missing, Head(required))
                            ELSE missing)

check_required_params(agent, method, params) ==
    IF agent \notin DOMAIN RequiredParams
          \/ method \notin DOMAIN RequiredParams[agent]
        THEN <<>>
        ELSE CollectMissing(RequiredParams[agent][method], params, <<>>)

-----------------------------------------------------------------------------
(* ConversationHistory *)

\* ConversationHistory.__init__'s default max_history
DefaultMaxHistory == 10

\* get_recent_context's default num_messages
DefaultNumMessages == 3

Interaction(ts, msg, resp, agent, method) ==
    [ timestamp       |-> ts,
      user_message    |-> msg,
      system_response |-> resp,
      agent           |-> agent,
      method          |-> method ]

\* a list that drops its newest element on overflow
add_interaction_pop_last(hist, cap, interaction) ==
    LET appended == Append(hist, interaction)
    IN  IF Len(appended) > cap
            THEN SubSeq(appended, 1, Len(appended) - 1)
            ELSE appended

add_interaction(hist, cap, interaction) ==
    LET appended == Append(hist, interaction)
    IN  IF Len(appended) > cap THEN Tail(appended) ELSE appended

RECURSIVE RenderContext(_)
RenderContext(recent) ==
    IF Len(recent) = 0 THEN <<>>
    ELSE << <<"user: ">> \o Head(recent).user_message,
            <<"system: ">> \o Head(recent).system_response >>
         \o RenderContext(Tail(recent))

get_recent_context(hist, num_messages) ==
    LET recent == IF Len(hist) > 0 THEN PyLast(hist, num_messages) ELSE <<>>
    IN  Join(RenderContext(recent), "\n")

-----------------------------------------------------------------------------
(* The language-model backend's reply and its parsing in LLMClient.query.   *)
(* The reply text is a sequence of symbols: a backtick, letters, white      *)
(* space, and one symbol for each JSON value the backend may send.          *)

Backtick == "backtick"

Newline == "\n"

Whitespace == {Newline, " "}

\* the JSON objects the backend may send, by symbol
JsonObjects ==
    [ d_create        |-> [agent |-> "action", method |-> "create_product",
                           params |-> [name |-> "X", price |-> "99"]],
      d_create_null   |-> [agent |-> "action", method |-> "create_product",
                           params |-> [name |-> "X", price |-> None]],
      d_create_noname |-> [agent |-> "action", method |-> "create_product",
                           params |-> [price |-> "99"]],
      d_create_empty  |-> [agent |-> "action", method |-> "create_product",
                           params |-> EmptyDict],
      d_track         |-> [agent |-> "info", method |-> "get_shipping_tracking",
                           params |-> [order_id |-> "123"]],
      d_track_null    |-> [agent |-> "info", method |-> "get_shipping_tracking",
                           params |-> [order_id |-> None]],
      d_trends        |-> [agent |-> "research", method |-> "get_market_trends",
                           params |-> [market_segment |-> "fashion"]],
      d_delete        |-> [agent |-> "action", method |-> "delete_product",
                           params |-> [product_name |-> None]],
      d_billing       |-> [agent |-> "billing", method |-> "create_product",
                           params |-> [name |-> None]],
      d_no_agent      |-> [method |-> "create_product",
                           params |-> [name |-> "X", price |-> "99"]],
      d_agent_null    |-> [agent |-> None, method |-> "create_product",
                           params |-> [name |-> "X", price |-> "99"]],
      d_no_method     |-> [agent |-> "action",
                           params |-> [name |-> "X", price |-> "99"]],
      d_no_params     |-> [agent |-> "info", method |-> "get_shipping_tracking"] ]

\* JSON string literals, by symbol: the text inside the quotes
JsonStrings == [ s_track |-> <<"d_track">> ]

\* JSON arrays
JsonArrays == {"a_list"}

JsonValue(type, obj, str) == [type |-> type, obj |-> obj, str |-> str]

\* str.strip()
RECURSIVE LStrip(_)
LStrip(text) ==
    IF Len(text) > 0 /\ Head(text) \in Whitespace THEN LStrip(Tail(text)) ELSE text

RECURSIVE RStrip(_)
RStrip(text) ==
    IF Len(text) > 0 /\ text[Len(text)] \in Whitespace
        THEN RStrip(SubSeq(text, 1, Len(text) - 1))
        ELSE text

Strip(text) == LStrip(RStrip(text))

\* str.startswith(prefix)
StartsWith(text, prefix) ==
    Len(text) >= Len(prefix) /\ SubSeq(text, 1, Len(prefix)) = prefix

FenceJson == <<Backtick, Backtick, Backtick, "j", "s", "o", "n">>

FencePlain == <<Backtick, Backtick, Backtick>>

\* json.loads(text): white space around the one JSON value is skipped
json_loads(text) ==
    LET body == Strip(text)
    IN  IF Len(body) # 1 THEN Raise(<<"JSONDecodeError">>)
        ELSE IF body[1] \in DOMAIN JsonObjects
            THEN Ok(JsonValue("object", JsonObjects[body[1]], EmptyStr))
        ELSE IF body[1] \in DOMAIN JsonStrings
            THEN Ok(JsonValue("string", EmptyDict, JsonStrings[body[1]]))
        ELSE IF body[1] \in JsonArrays
            THEN Ok(JsonValue("array", EmptyDict, EmptyStr))
        ELSE Raise(<<"JSONDecodeError">>)

\* LLMResponse(**result).dict(): agent: str, method: str, params: Dict[str, Any];
\* the dict keeps exactly these three fields
LLMResponse(value) ==
    IF value.type # "object" THEN Raise(<<"TypeError">>)
    ELSE IF ~({"agent", "method", "params"} \subseteq DOMAIN value.obj)
        THEN Raise(<<"ValidationError">>)
    ELSE IF value.obj["agent"] = None \/ value.obj["method"] = None
        THEN Raise(<<"ValidationError">>)
    ELSE Ok(JsonValue("object",
                      [ agent  |-> value.obj["agent"],
                        method |-> value.obj["method"],
                        params |-> value.obj["params"] ],
                      EmptyStr))

\* lines 144-146 with the fence removed whatever its tag
StripFenceAnyTag(content) ==
    IF StartsWith(content, FenceJson) THEN PySlice(content, 7, -3)
    ELSE IF StartsWith(content, FencePlain) THEN PySlice(content, 3, -3)
    ELSE content

\* lines 144-146 with only the opening fence removed
StripFenceOpenOnly(content) ==
    IF StartsWith(content, FenceJson) THEN PySlice(content, 7, Len(content)) ELSE content

\* lines 144-146
StripFence(content) ==
    IF StartsWith(content, FenceJson) THEN PySlice(content, 7, -3) ELSE content

\* lines 143-154: the value handed to LLMResponse
parse_content(content) ==
    LET first == json_loads(StripFence(Strip(content)))
    IN  IF first.ok /\ first.val.type = "string"
            THEN json_loads(first.val.str)
            ELSE first

\* LLMClient.query for provider "openai"; reply is the outcome of the HTTP
\* request: the message content, or the exception raised by requests
query(reply) ==
    IF ~reply.ok THEN reply
    ELSE LET result == parse_content(reply.val)
         IN  IF ~result.ok THEN result ELSE LLMResponse(result.val)

query_llm(reply) == query(reply)

Bare(sym) == <<sym>>

Padded(sym) == <<Newline, sym, Newline>>

FencedJson(sym) == FenceJson \o <<Newline, sym, Newline>> \o FencePlain

FencedPlain(sym) == FencePlain \o <<Newline, sym, Newline>> \o FencePlain

\* a fenced answer on one line, with white space around the fence
FencedJsonTight(sym) == <<" ">> \o FenceJson \o <<sym>> \o FencePlain \o <<Newline>>

Bodies == DOMAIN JsonObjects \cup DOMAIN JsonStrings \cup JsonArrays \cup {"Sure!"}

\* every outcome of the HTTP request
Replies ==
    {Raise(<<"ConnectionError">>)}
        \cup {Ok(Bare(b)) : b \in Bodies}
        \cup {Ok(Padded(b)) : b \in Bodies}
        \cup {Ok(FencedJson(b)) : b \in Bodies}
        \cup {Ok(FencedJsonTight(b)) : b \in Bodies}
        \cup {Ok(FencedPlain(b)) : b \in Bodies}

-----------------------------------------------------------------------------
(* Orchestrator.handle_user_message *)

\* the keys of Orchestrator.agent_mapping
AgentNames == {"info", "action", "research"}

\* user messages, as sequences of words
Messages ==
    { <<"add", "product", "named", "shirt", "at", "price", "70">>,
      <<"update", "price", "of", "all", "products">>,
      <<"what", "time", "is", "it?">> }

NoReply == Ok(EmptyStr)

NoData == [agent |-> None, method |-> None, params |-> EmptyDict]

\* the return statement a response comes from, by line of orchestrator.py
Sites == {"invalid_format", "missing", "not_found", "handler", "empty",
          "agent_error", "outer"}

\* the template category a return statement looks up
CategoryOf(site) ==
    CASE site = "invalid_format" -> "invalid_format"
      [] site = "not_found"   -> "not_found"
      [] site = "empty"       -> "general_error"
      [] site = "agent_error" -> "agent_error"
      [] site = "outer"       -> "general_error"
      [] OTHER                -> "none"

At(site, out) == [site |-> site, out |-> out]

\* lines 139-141 with the exception raised again
OuterExceptReraise(msgs) == Raise(<<"re-raised">>)

\* lines 139-141: the handler of the outer try
OuterExcept(msgs) == get_error_message(msgs, "general_error", EmptyDict)

\* lines 89-96: a str is parsed, anything else is taken as it is; a str that
\* is not JSON gives the invalid_format message
ParseLLMResponse(msgs, llm_response) ==
    IF llm_response.type = "string"
        THEN LET parsed == json_loads(llm_response.str)
             IN  IF parsed.ok THEN At("parsed", parsed)
                 ELSE LET r == get_error_message(msgs, "invalid_format", EmptyDict)
                      IN  IF r.ok THEN At("invalid_format", r)
                                  ELSE At("outer", OuterExcept(msgs))
        ELSE At("parsed", Ok(llm_response))

\* line 106
MissingMessage(missing) ==
    <<"Missing information: ">>
        \o Join([i \in 1..Len(missing) |-> <<missing[i]>>], ", ")
        \o <<". Please provide the missing information.">>

\* line 105 with the result of the validation ignored
BlocksDispatchNever(missing) == FALSE

\* line 105
BlocksDispatch(missing) == Len(missing) > 0

\* line 109 with a default agent
LookupAgentDefault(agent_name) == TRUE

\* lines 109-110: agent_mapping.get(agent_name) is truthy
LookupAgent(agent_name) == agent_name \in AgentNames

\* lines 110-113; an exception of the lookup reaches the outer handler
NotFound(msgs, agent_name) ==
    LET r == get_error_message(msgs, "not_found", [item |-> <<"agent ", agent_name>>])
    IN  IF r.ok THEN At("not_found", r) ELSE At("outer", OuterExcept(msgs))

\* lines 130-137 with the exception text returned as the response
AgentErrorEcho(msgs, agent, method, err) ==
    At("agent_error", Ok(<<"Error in agent: ">> \o err))

\* lines 130-137: the handler of the inner try
AgentError(msgs, agent, method, err) ==
    LET r == get_error_message(msgs, "agent_error",
                 [agent |-> <<agent>>, method |-> <<method>>, error |-> err])
    IN  IF r.ok THEN At("agent_error", r) ELSE At("outer", OuterExcept(msgs))

\* lines 117-128 seen from the return: o is the outcome of
\* await agent.handle_message(method, params)
AfterHandler(msgs, agent, method, o) ==
    IF o.ok /\ o.val # EmptyStr THEN At("handler", Ok(o.val))
    ELSE IF o.ok
        THEN LET r == get_error_message(msgs, "general_error", EmptyDict)
             IN  IF r.ok THEN At("empty", r)
                         ELSE AgentError(msgs, agent, method, r.val)
    ELSE AgentError(msgs, agent, method, o.val)

\* lines 120-123 without the add_interaction call
HistoryAfterNoRecord(hist, cap, ts, msg, agent, method, res) == hist

\* lines 120-123 with the add_interaction call made for every outcome
HistoryAfterAlways(hist, cap, ts, msg, agent, method, res) ==
    add_interaction(hist, cap, Interaction(ts, msg, res.out.val, agent, method))

\* lines 120-123: the history after the handler's outcome
HistoryAfter(hist, cap, ts, msg, agent, method, res) ==
    IF res.site = "handler"
        THEN add_interaction(hist, cap, Interaction(ts, msg, res.out.val, agent, method))
        ELSE hist

\* the state the call moves to when query_llm raised, with another request made
PcAfterLLMFailureRetry == "llm"

\* lines 139-141: when query_llm raised the call ends
PcAfterLLMFailure == "done"

-----------------------------------------------------------------------------
(* The agents' handlers *)

\* handle_message(self, user_message) of the three agents: the parameters
\* after self
HandlerSignature ==
    [ info     |-> <<"user_message">>,
      action   |-> <<"user_message">>,
      research |-> <<"user_message">> ]

\* the positional arguments of the call of line 117: method, params
CallArguments == <<"method", "params">>

BindError ==
    <<"TypeError: handle_message() takes 2 positional arguments but 3 were given">>

\* Python binds the call's positional arguments to the parameters
BindArgs(signature, arguments) ==
    IF Len(arguments) # Len(signature) THEN Raise(BindError) ELSE Ok(<<"bound">>)

HandlerTexts == { <<"handler response">> }

ExceptionTexts == { BindError, <<"ConnectionError: store unreachable">> }

\* what a handler declared "-> str" can do when it runs: return text, return
\* an empty response, raise
HandlerOutcomes ==
    {Ok(t) : t \in HandlerTexts} \cup {Ok(EmptyStr)} \cup {Raise(e) : e \in ExceptionTexts}

\* the outcomes of calling the agent's own handle_message as line 117 does
ShippedOutcomes(agent) ==
    LET bound == BindArgs(HandlerSignature[agent], CallArguments)
    IN  IF bound.ok THEN HandlerOutcomes ELSE {bound}

-----------------------------------------------------------------------------
(* Actions *)

NoCheck == [called |-> FALSE, done |-> FALSE, agent |-> None, method |-> None,
            params |-> EmptyDict, result |-> <<>>]

\* a coroutine that has not been started
NewTask ==
    [ pc |-> "new", conv |-> None, user_message |-> EmptyStr, context |-> EmptyStr,
      ctxTurns |-> {}, response_data |-> NoData, response |-> Ok(EmptyStr),
      respKind |-> "none", turn |-> 0, readAt |-> 0 ]

\* the bot's MessageManager before _load_messages has run
NotLoaded == [kind |-> "unloaded", d |-> EmptyDict]

\* get_help_message called without a category
NoCategory == <<>>

\* the value handle_message returns and the operations it invoked on the way
AgentResult(kind, text, calls) == [kind |-> kind, text |-> text, calls |-> calls]

NoResponse == AgentResult("none", <<>>, <<>>)

\* ActionAgent.__init__ and the state before the bot loads its templates
InitAgent ==
    /\ agent_pc = "idle"
    /\ agent_message = EmptyStr
    /\ extractor = None
    /\ results = <<>>
    /\ agent_response = NoResponse
    /\ api_calls = <<>>
    /\ bot_messages = NotLoaded
    /\ help_category = NoCategory
    /\ help_response = Ok(EmptyStr)

\* a store that holds nothing of interest yet, and no operation called
NoStore == [products |-> <<>>, categories |-> <<>>]

InitStore ==
    /\ store_outcome = None
    /\ num_requested = <<>>
    /\ store = NoStore
    /\ op_log = <<>>

InitLoop ==
    /\ tasks = [t \in 1..MaxCalls |-> NewTask]
    /\ running = 0

InitCall ==
    /\ pc = "idle"
    /\ user_message = EmptyStr
    /\ context = EmptyStr
    /\ llm_reply = NoReply
    /\ response_data = NoData
    /\ missing_params = <<>>
    /\ response = Ok(EmptyStr)
    /\ respKind = "none"
    /\ handled = <<>>
    /\ llmCalls = 0
    /\ handlerCalls = 0
    /\ returned = 0

\* Orchestrator.__init__
Init ==
    /\ \/ messages = LoadOutcome(TRUE)
       \/ messages = LoadOutcome(FALSE)
    /\ history = <<>>
    /\ max_history = DefaultMaxHistory
    /\ clock = 0
    /\ chk = NoCheck
    /\ InitCall
    /\ InitLoop
    /\ InitAgent
    /\ InitStore

\* lines 64-72: the call starts and reads the context
Receive(m) ==
    /\ pc = "idle"
    /\ clock < MaxTurns
    /\ pc' = "llm"
    /\ user_message' = m
    /\ context' = get_recent_context(history, DefaultNumMessages)
    /\ llm_reply' = NoReply
    /\ response_data' = NoData
    /\ missing_params' = <<>>
    /\ response' = Ok(EmptyStr)
    /\ respKind' = "none"
    /\ handled' = <<>>
    /\ llmCalls' = 0
    /\ handlerCalls' = 0
    /\ returned' = 0
    /\ UNCHANGED <<messages, history, max_history, clock, chk>>
    /\ UNCHANGED loopVars
    /\ UNCHANGED agentVars
    /\ UNCHANGED storeVars

\* lines 85-101 and 139-141: query_llm returns LLMResponse(...).dict() or
\* raises; response_data.get needs a dict
QueryLLM ==
    /\ pc = "llm"
    /\ \E outcome \in Replies :
         LET r == query_llm(outcome)
             p == ParseLLMResponse(messages, r.val)
         IN  /\ llm_reply' = outcome
             /\ llmCalls' = llmCalls + 1
             /\ IF ~r.ok
                  THEN /\ response' = OuterExcept(messages)
                       /\ respKind' = "outer"
                       /\ pc' = PcAfterLLMFailure
                       /\ UNCHANGED response_data
                  ELSE IF p.site # "parsed"
                  THEN /\ response' = p.out
                       /\ respKind' = p.site
                       /\ pc' = "done"
                       /\ UNCHANGED response_data
                  ELSE IF p.out.val.type # "object"
                  THEN /\ response' = OuterExcept(messages)
                       /\ respKind' = "outer"
                       /\ pc' = "done"
                       /\ UNCHANGED response_data
                  ELSE /\ response_data' = p.out.val.obj
                       /\ pc' = "validate"
                       /\ UNCHANGED <<response, respKind>>
    /\ UNCHANGED loopVars
    /\ UNCHANGED agentVars
    /\ UNCHANGED storeVars
    /\ UNCHANGED <<messages, history, max_history, clock, user_message, context,
                   missing_params, handled, handlerCalls, returned, chk>>

\* lines 98-113
Validate ==
    /\ pc = "validate"
    /\ LET agent_name == DictGet(response_data, "agent", None)
           method     == DictGet(response_data, "method", None)
           params     == DictGet(response_data, "params", EmptyDict)
           missing    == check_required_params(agent_name, method, params)
       IN  /\ missing_params' = missing
           /\ IF BlocksDispatch(missing)
                THEN /\ response' = Ok(MissingMessage(missing))
                     /\ respKind' = "missing"
                     /\ pc' = "done"
                ELSE IF ~LookupAgent(agent_name)
                THEN /\ response' = NotFound(messages, agent_name).out
                     /\ respKind' = NotFound(messages, agent_name).site
                     /\ pc' = "done"
                ELSE /\ pc' = "dispatch"
                     /\ UNCHANGED <<response, respKind>>
    /\ UNCHANGED loopVars
    /\ UNCHANGED agentVars
    /\ UNCHANGED storeVars
    /\ UNCHANGED <<messages, history, max_history, clock, user_message, context,
                   llm_reply, response_data, handled, llmCalls, handlerCalls, returned, chk>>

\* lines 116-137 for one outcome o of the call of line 117; ran tells whether
\* the handler's body was entered
DispatchWith(o, ran) ==
    /\ pc = "dispatch"
    /\ LET agent_name == response_data.agent
           method     == response_data.method
           res        == AfterHandler(messages, agent_name, method, o)
       IN  /\ handlerCalls' = handlerCalls + 1
           /\ handled' = IF ran
                           THEN <<[method |-> method, params |-> response_data.params]>>
                           ELSE handled
           /\ history' = HistoryAfter(history, max_history, clock + 1, user_message,
                                      agent_name, method, res)
           /\ clock' = IF res.site = "handler" THEN clock + 1 ELSE clock
           /\ response' = res.out
           /\ respKind' = res.site
           /\ pc' = "done"
    /\ UNCHANGED <<messages, max_history, user_message, context, llm_reply,
                   response_data, missing_params, llmCalls, returned, chk>>
    /\ UNCHANGED loopVars
    /\ UNCHANGED agentVars
    /\ UNCHANGED storeVars

\* the call of line 117 with any outcome a handler can have: it returns text,
\* returns an empty response, or an exception comes out of the call (the
\* TypeError of DispatchShipped among them)
Dispatch == \E o \in HandlerOutcomes : DispatchWith(o, TRUE)

\* the call of line 117 on the agents of agent_mapping, whose handle_message
\* takes one argument: binding the two arguments raises before the body runs
DispatchShipped ==
    /\ pc = "dispatch"
    /\ \E o \in ShippedOutcomes(response_data.agent) :
          DispatchWith(o, BindArgs(HandlerSignature[response_data.agent],
                                   CallArguments).ok)

\* the call hands its response to the caller, or the exception leaves it
Return ==
    /\ pc = "done"
    /\ pc' = "idle"
    /\ returned' = returned + 1
    /\ UNCHANGED <<messages, history, max_history, clock, user_message, context,
                   llm_reply, response_data, missing_params, response, respKind,
                   handled, llmCalls, handlerCalls, chk>>
    /\ UNCHANGED loopVars
    /\ UNCHANGED agentVars
    /\ UNCHANGED storeVars

Next ==
    \/ \E m \in Messages : Receive(m)
    \/ QueryLLM
    \/ Validate
    \/ Dispatch
    \/ Return

Spec == Init /\ [][Next]_vars

NextShipped ==
    \/ \E m \in Messages : Receive(m)
    \/ QueryLLM
    \/ Validate
    \/ DispatchShipped
    \/ Return

SpecShipped == Init /\ [][NextShipped]_vars

-----------------------------------------------------------------------------
(* handle_user_message calls on the event loop.  main.py holds one          *)
(* Orchestrator for every caller; each call is a coroutine, and the loop    *)
(* runs one coroutine at a time, from its start or its resumption to its    *)
(* next suspension or its end.  The only await of handle_user_message is    *)
(* line 117; query_llm is a blocking call.                                  *)

\* the callers' conversations
Conversations == {"c1", "c2"}

\* the handlers with every await suspending
HandlerAwaitsAlways(agent) == TRUE

\* whether awaiting the agent's handle_message suspends the caller: the
\* handlers' bodies contain no await, so the awaited coroutine runs to its end
HandlerAwaits(agent) == FALSE

\* lines 85-96 for one outcome of the request: the call's next position
LLMStep(msgs, outcome) ==
    LET r == query_llm(outcome)
        p == ParseLLMResponse(msgs, r.val)
        end(site, out) == [pc |-> "done", respKind |-> site, response |-> out,
                           response_data |-> NoData]
    IN  IF ~r.ok THEN end("outer", OuterExcept(msgs))
        ELSE IF p.site # "parsed" THEN end(p.site, p.out)
        ELSE IF p.out.val.type # "object" THEN end("outer", OuterExcept(msgs))
        ELSE [pc |-> "validate", respKind |-> "none", response |-> Ok(EmptyStr),
              response_data |-> p.out.val.obj]

\* lines 98-113: the call's next position
ValidateStep(msgs, data) ==
    LET agent_name == DictGet(data, "agent", None)
        missing    == check_required_params(agent_name, DictGet(data, "method", None),
                                            DictGet(data, "params", EmptyDict))
    IN  IF BlocksDispatch(missing)
            THEN [pc |-> "done", respKind |-> "missing",
                  response |-> Ok(MissingMessage(missing))]
        ELSE IF ~LookupAgent(agent_name)
            THEN [pc |-> "done", respKind |-> NotFound(msgs, agent_name).site,
                  response |-> NotFound(msgs, agent_name).out]
        ELSE [pc |-> "dispatch", respKind |-> "none", response |-> Ok(EmptyStr)]

\* the timestamps of the turns get_recent_context renders
ContextTurns(hist, num_messages) ==
    LET recent == IF Len(hist) > 0 THEN PyLast(hist, num_messages) ELSE <<>>
    IN  {recent[i].timestamp : i \in 1..Len(recent)}

StartedTasks == {t \in 1..MaxCalls : tasks[t].pc # "new"}

\* the coroutine returns: its local variables are gone; what stays is what
\* it returned, for which conversation, and the turn it appended
Returned(task, site, out, turn) ==
    [NewTask EXCEPT !.pc = "done", !.conv = task.conv, !.ctxTurns = task.ctxTurns,
                    !.readAt = task.readAt,
                    !.respKind = site, !.response = out, !.turn = turn]

\* a caller's call starts running: lines 64-72
Accept(c, m) ==
    /\ running = 0
    /\ Cardinality(StartedTasks) < MaxCalls
    /\ LET t == Cardinality(StartedTasks) + 1
       IN  /\ tasks' = [tasks EXCEPT ![t] =
                  [NewTask EXCEPT !.pc = "llm", !.conv = c, !.user_message = m,
                       !.context = get_recent_context(history, DefaultNumMessages),
                       !.ctxTurns = ContextTurns(history, DefaultNumMessages),
                       !.readAt = clock]]
           /\ running' = t
    /\ UNCHANGED <<messages, history, max_history, clock, chk>>
    /\ UNCHANGED callVars
    /\ UNCHANGED agentVars
    /\ UNCHANGED storeVars

\* lines 85-96 of the running coroutine
LoopQueryLLM ==
    /\ running # 0
    /\ tasks[running].pc = "llm"
    /\ \E outcome \in Replies :
         LET n == LLMStep(messages, outcome)
         IN  /\ tasks' = [tasks EXCEPT ![running] =
                            IF n.pc = "done"
                              THEN Returned(@, n.respKind, n.response, 0)
                              ELSE [@ EXCEPT !.pc = n.pc,
                                             !.response_data = n.response_data]]
             /\ running' = IF n.pc = "done" THEN 0 ELSE running
    /\ UNCHANGED <<messages, history, max_history, clock, chk>>
    /\ UNCHANGED callVars
    /\ UNCHANGED agentVars
    /\ UNCHANGED storeVars

\* lines 98-113 of the running coroutine
LoopValidate ==
    /\ running # 0
    /\ tasks[running].pc = "validate"
    /\ LET n == ValidateStep(messages, tasks[running].response_data)
       IN  /\ tasks' = [tasks EXCEPT ![running] =
                          IF n.pc = "done"
                            THEN Returned(@, n.respKind, n.response, 0)
                            ELSE [@ EXCEPT !.pc = n.pc]]
           /\ running' = IF n.pc = "done" THEN 0 ELSE running
    /\ UNCHANGED <<messages, history, max_history, clock, chk>>
    /\ UNCHANGED callVars
    /\ UNCHANGED agentVars
    /\ UNCHANGED storeVars

\* lines 116-137 of coroutine t: the await of line 117 either suspends t, and
\* the loop is free until the handler is done, or runs the handler to its end;
\* then the outcome is handled and the call returns
LoopDispatch(t) ==
    /\ \/ running = t /\ tasks[t].pc = "dispatch"
       \/ running = 0 /\ tasks[t].pc = "awaiting"
    /\ IF tasks[t].pc = "dispatch" /\ HandlerAwaits(tasks[t].response_data.agent)
         THEN /\ tasks' = [tasks EXCEPT ![t].pc = "awaiting"]
              /\ running' = 0
              /\ UNCHANGED <<history, clock>>
         ELSE \E o \in HandlerOutcomes :
                LET agent_name == tasks[t].response_data.agent
                    method     == tasks[t].response_data.method
                    res        == AfterHandler(messages, agent_name, method, o)
                IN  /\ history' = HistoryAfter(history, max_history, clock + 1,
                                               tasks[t].user_message, agent_name,
                                               method, res)
                    /\ clock' = IF res.site = "handler" THEN clock + 1 ELSE clock
                    /\ tasks' = [tasks EXCEPT ![t] =
                                    Returned(@, res.site, res.out,
                                             IF res.site = "handler"
                                               THEN clock + 1 ELSE 0)]
                    /\ running' = 0
    /\ UNCHANGED <<messages, max_history, chk>>
    /\ UNCHANGED callVars
    /\ UNCHANGED agentVars
    /\ UNCHANGED storeVars

NextLoop ==
    \/ \E c \in Conversations, m \in Messages : Accept(c, m)
    \/ LoopQueryLLM
    \/ LoopValidate
    \/ \E t \in 1..MaxCalls : LoopDispatch(t)

SpecLoop == Init /\ [][NextLoop]_vars

-----------------------------------------------------------------------------
(* _check_required_params called directly on bounded arguments *)

Range(seq) == {seq[i] : i \in 1..Len(seq)}

HasEntry(agent, method) ==
    agent \in DOMAIN RequiredParams /\ method \in DOMAIN RequiredParams[agent]

CheckAgents == AgentNames \cup {"billing", None}

CheckMethods ==
    UNION {DOMAIN RequiredParams[a] : a \in DOMAIN RequiredParams} \cup {"delete_product"}

\* the parameter names an intent for the method may carry
NamesOf(method) ==
    UNION {Range(RequiredParams[a][method]) :
              a \in {b \in DOMAIN RequiredParams : method \in DOMAIN RequiredParams[b]}}
        \cup {"note"}

\* a parameter is null, the empty string or a value
ParamsOver(names) == UNION {[S -> {None, "", "v"}] : S \in SUBSET names}

InitCheck ==
    /\ messages = LoadedMessages
    /\ history = <<>>
    /\ max_history = DefaultMaxHistory
    /\ clock = 0
    /\ InitCall
    /\ InitLoop
    /\ InitAgent
    /\ InitStore
    /\ \E a \in CheckAgents, m \in CheckMethods :
         \E p \in ParamsOver(NamesOf(m)) :
             chk = [called |-> TRUE, done |-> FALSE, agent |-> a, method |-> m,
                    params |-> p, result |-> <<>>]

CheckRequired ==
    /\ chk.called
    /\ ~chk.done
    /\ chk' = [chk EXCEPT !.done = TRUE,
                          !.result = check_required_params(chk.agent, chk.method,
                                                           chk.params)]
    /\ UNCHANGED <<messages, history, max_history, clock, pc, user_message, context,
                   llm_reply, response_data, missing_params, response, respKind,
                   handled, llmCalls, handlerCalls, returned>>
    /\ UNCHANGED loopVars
    /\ UNCHANGED agentVars
    /\ UNCHANGED storeVars

NextCheck == CheckRequired

SpecCheck == InitCheck /\ [][NextCheck]_vars

-----------------------------------------------------------------------------
(* ConversationHistory driven directly: add_interaction calls on a history  *)
(* of any capacity up to the default                                        *)

InitHistory ==
    /\ messages = LoadedMessages
    /\ history = <<>>
    /\ max_history \in 0..DefaultMaxHistory
    /\ clock = 0
    /\ chk = NoCheck
    /\ InitCall
    /\ InitLoop
    /\ InitAgent
    /\ InitStore

AddInteraction(m) ==
    /\ clock < MaxAdds
    /\ clock' = clock + 1
    /\ history' = add_interaction(history, max_history,
                      Interaction(clock + 1, m, <<"handler response">>,
                                  "action", "create_product"))
    /\ UNCHANGED <<messages, max_history, pc, user_message, context, llm_reply,
                   response_data, missing_params, response, respKind, handled,
                   llmCalls, handlerCalls, returned, chk>>
    /\ UNCHANGED loopVars
    /\ UNCHANGED agentVars
    /\ UNCHANGED storeVars

NextHistory == \E m \in Messages : AddInteraction(m)

SpecHistory == InitHistory /\ [][NextHistory]_vars

-----------------------------------------------------------------------------
(* get_recent_context called directly, with any num_messages, on the        *)
(* histories that add_interaction calls can have built                      *)

\* turns held by the history get_recent_context is called on
MaxContextTurns == 3

\* the largest num_messages asked for
MaxRequested == 4

\* the histories of n turns, the k-th one added k-th
RECURSIVE HistoriesOf(_)
HistoriesOf(n) ==
    IF n = 0 THEN {<<>>}
    ELSE { Append(h, Interaction(n, m, <<"handler response">>, "action", "create_product")) :
             h \in HistoriesOf(n - 1), m \in Messages }

InitContext ==
    /\ messages = LoadedMessages
    /\ \E n \in 0..MaxContextTurns :
          /\ history \in HistoriesOf(n)
          /\ clock = n
    /\ max_history = DefaultMaxHistory
    /\ chk = NoCheck
    /\ InitCall
    /\ InitLoop
    /\ InitAgent
    /\ InitStore

\* context = conversation_history.get_recent_context(n)
GetRecentContext(n) ==
    /\ num_requested = <<>>
    /\ num_requested' = <<n>>
    /\ context' = get_recent_context(history, n)
    /\ UNCHANGED <<messages, history, max_history, clock, chk, pc, user_message,
                   llm_reply, response_data, missing_params, response, respKind,
                   handled, llmCalls, handlerCalls, returned>>
    /\ UNCHANGED loopVars
    /\ UNCHANGED agentVars
    /\ UNCHANGED <<store_outcome, store, op_log>>

NextContext == \E n \in 0..MaxRequested : GetRecentContext(n)

SpecContext == InitContext /\ [][NextContext]_vars

-----------------------------------------------------------------------------
(* Python's re on messages.  A message is a sequence of tokens: a word, a   *)
(* number, white space or a punctuation mark; a Hebrew one-letter prefix    *)
(* (l-, b-, m-) written onto a word is a token of its own.  Hebrew words    *)
(* are written by their English gloss.  A pattern is a tree:                *)
(*   <<"lit", t>>      the token t                                          *)
(*   <<"in", S>>       one token of the set S                               *)
(*   <<"notin", S>>    one token outside S                                  *)
(*   <<"seq", rs>>     the patterns of rs one after the other               *)
(*   <<"alt", rs>>     the first of rs that leads to a match                *)
(*   <<"opt", r>>  <<"star", r>>  <<"plus", r>>    greedy  ?  *  +          *)
(*   <<"lazyplus", r>>  <<"lazystar", r>>          +?  *?                   *)
(*   <<"group", k, r>> capture group k                                      *)
(*   <<"end">>         $ : the end, or before a newline that ends the text  *)
(* Matching is by backtracking in Python's order of preference: Match gives *)
(* the matcher's states after the pattern, most preferred first.            *)

\* the largest group number of the patterns
MaxGroup == 4

Unset == [set |-> FALSE, val |-> <<>>]

NoGroups == [k \in 1..MaxGroup |-> Unset]

\* the tokens that are numbers: \d+ matches a run of them
Digits == {"0", "1", "2", "3", "4", "5", "6", "7", "8", "9"}

\* punctuation marks: neither \w nor \s
Punctuation == {",", ":", ";", ".", "-", "=", "/", "%"}

\* words in Latin letters, digits and _ : with Digits and "-", the tokens of
\* [a-zA-Z0-9_-]
LatinWords == {"ABC", "SAVE", "IL", "USD", "vip", "flat_rate"}

Lits(toks) == <<"seq", [i \in 1..Len(toks) |-> <<"lit", toks[i]>>]>>

Group(k, r) == <<"group", k, r>>

SeqOf(rs) == <<"seq", rs>>

Alt(rs) == <<"alt", rs>>

Opt(r) == <<"opt", r>>

Star(r) == <<"star", r>>

Plus(r) == <<"plus", r>>

LazyPlus(r) == <<"lazyplus", r>>

LazyStar(r) == <<"lazystar", r>>

OneOf(S) == <<"in", S>>

NoneOf(S) == <<"notin", S>>

EndOfText == <<"end">>

\* \s+  \s*  \d+
Ws1 == Plus(OneOf(Whitespace))

Ws0 == Star(OneOf(Whitespace))

Number == Plus(OneOf(Digits))

\* the matcher's states after r, from state st = [pos, groups]: pos tokens
\* of text are consumed
RECURSIVE Match(_, _, _), MatchAll(_, _, _), MatchSeq(_, _, _), MatchAlt(_, _, _)
Match(r, text, st) ==
    LET tag == r[1]
        next == text[st.pos + 1]
        \* the states after one more r that consumed something
        more(q) == LET after == Match(q, text, st)
                   IN  SelectSeq(after, LAMBDA a : a.pos > st.pos)
    IN  CASE tag = "lit"   -> IF st.pos < Len(text) /\ next = r[2]
                                THEN << [st EXCEPT !.pos = st.pos + 1] >> ELSE << >>
          [] tag = "in"    -> IF st.pos < Len(text) /\ next \in r[2]
                                THEN << [st EXCEPT !.pos = st.pos + 1] >> ELSE << >>
          [] tag = "notin" -> IF st.pos < Len(text) /\ next \notin r[2]
                                THEN << [st EXCEPT !.pos = st.pos + 1] >> ELSE << >>
          [] tag = "end"   -> IF \/ st.pos = Len(text)
                                   \/ (st.pos = Len(text) - 1 /\ next = "\n")
                                THEN <<st>> ELSE << >>
          [] tag = "seq"   -> MatchSeq(r[2], text, <<st>>)
          [] tag = "alt"   -> MatchAlt(r[2], text, st)
          [] tag = "opt"   -> Match(r[2], text, st) \o <<st>>
          [] tag = "star"  -> MatchAll(r, text, more(r[2])) \o <<st>>
          [] tag = "plus"  -> MatchAll(<<"star", r[2]>>, text, Match(r[2], text, st))
          [] tag = "lazystar" -> <<st>> \o MatchAll(r, text, more(r[2]))
          [] tag = "lazyplus" -> MatchAll(<<"lazystar", r[2]>>, text, Match(r[2], text, st))
          [] tag = "group" ->
                LET after == Match(r[3], text, st)
                IN  [i \in 1..Len(after) |->
                        [after[i] EXCEPT !.groups[r[2]] =
                            [set |-> TRUE,
                             val |-> SubSeq(text, st.pos + 1, after[i].pos)]]]

MatchAll(r, text, sts) ==
    IF Len(sts) = 0 THEN << >>
    ELSE Match(r, text, Head(sts)) \o MatchAll(r, text, Tail(sts))

MatchSeq(rs, text, sts) ==
    IF Len(rs) = 0 THEN sts
    ELSE MatchSeq(Tail(rs), text, MatchAll(Head(rs), text, sts))

MatchAlt(rs, text, st) ==
    IF Len(rs) = 0 THEN << >>
    ELSE Match(Head(rs), text, st) \o MatchAlt(Tail(rs), text, st)

NoMatch == [found |-> FALSE, start |-> 0, stop |-> 0, groups |-> NoGroups]

\* re.search(r, text): the preferred match at the leftmost position that has one
RECURSIVE SearchFrom(_, _, _)
SearchFrom(r, text, start) ==
    IF start > Len(text) THEN NoMatch
    ELSE LET found == Match(r, text, [pos |-> start, groups |-> NoGroups])
         IN  IF Len(found) > 0
               THEN [found |-> TRUE, start |-> start, stop |-> found[1].pos,
                     groups |-> found[1].groups]
               ELSE SearchFrom(r, text, start + 1)

re_search(r, text) == SearchFrom(r, text, 0)

\* text in message, for str
RECURSIVE ContainsFrom(_, _, _)
ContainsFrom(message, text, start) ==
    IF start + Len(text) > Len(message) THEN FALSE
    ELSE IF SubSeq(message, start + 1, start + Len(text)) = text THEN TRUE
    ELSE ContainsFrom(message, text, start + 1)

Contains(message, text) == ContainsFrom(message, text, 0)

\* \w+ on tokens: words and numbers
WordToken == NoneOf(Whitespace \cup Punctuation)

\* .  (any character but a newline)
AnyToken == NoneOf({"\n"})

\* \d+(?:\.\d+)?
Decimal == SeqOf(<<Number, Opt(SeqOf(<<Lits(<<".">>), Number>>))>>)

-----------------------------------------------------------------------------
(* Python values of the extractors' results: every value carries its type   *)

PyStr(s) == [t |-> "str", v |-> s]

PyInt(digits) == [t |-> "int", v |-> digits]

PyFloat(digits) == [t |-> "float", v |-> digits]

PyBool(b) == [t |-> "bool", v |-> IF b THEN <<"True">> ELSE <<"False">>]

PyNone == [t |-> "none", v |-> <<>>]

PyList(items) == [t |-> "list", v |-> items]

PyDict(d) == [t |-> "dict", v |-> d]

\* an extractor's outcome: a dict, None, or an exception
Dict(d) == [kind |-> "dict", d |-> d, err |-> <<>>]

NoneResult == [kind |-> "none", d |-> EmptyDict, err |-> <<>>]

Raised(e) == [kind |-> "raise", d |-> EmptyDict, err |-> e]

\* bool(x) of an extractor's result
Truthy(res) == res.kind = "dict" /\ DOMAIN res.d # {}

\* the dict with the given keys removed
Without(d, keys) == [k \in DOMAIN d \ keys |-> d[k]]

\* {**a, **b}
Merge(a, b) == [k \in DOMAIN a \cup DOMAIN b |-> IF k \in DOMAIN b THEN b[k] ELSE a[k]]

\* str.split(sep) for a one-token separator
RECURSIVE SplitAcc(_, _, _)
SplitAcc(text, sep, current) ==
    IF Len(text) = 0 THEN <<current>>
    ELSE IF Head(text) = sep
        THEN <<current>> \o SplitAcc(Tail(text), sep, <<>>)
        ELSE SplitAcc(Tail(text), sep, Append(current, Head(text)))

Split(text, sep) == SplitAcc(text, sep, <<>>)

\* str.split(): the words between runs of white space
SplitWords(text) ==
    LET pieces == SplitAcc([i \in 1..Len(text) |->
                              IF text[i] \in Whitespace THEN " " ELSE text[i]],
                           " ", <<>>)
    IN  SelectSeq(pieces, LAMBDA piece : Len(piece) > 0)

\* text.split(sep, 1)[1] for a separator sep of several tokens that text contains
RECURSIVE AfterFirst(_, _)
AfterFirst(text, sep) ==
    IF StartsWith(text, sep) THEN SubSeq(text, Len(sep) + 1, Len(text))
    ELSE AfterFirst(Tail(text), sep)

\* [piece.strip() for piece in pieces]
StripEach(pieces) == [i \in 1..Len(pieces) |-> Strip(pieces[i])]

\* float(text): text is a decimal number, white space around it allowed
IsDecimal(text) ==
    LET body == Strip(text)
        m    == Match(SeqOf(<<Decimal, EndOfText>>), body, [pos |-> 0, groups |-> NoGroups])
    IN  Len(m) > 0

-----------------------------------------------------------------------------
(* ActionAgent's pattern extractors (src/src/agents/action_agent.py)        *)

Comma == Lits(<<",">>)

\* [^,]+
NotComma == Plus(NoneOf({","}))

\* (?:,\s*<label>:\s*(<value>))?  with the value in group k
CommaField(label, k, value) ==
    Opt(SeqOf(<<Comma, Ws0, Lits(label \o <<":">>), Ws0, Group(k, value)>>))

\* (?:<label>:\s*(<value>))?
FirstField(label, k, value) ==
    Opt(SeqOf(<<Lits(label \o <<":">>), Ws0, Group(k, value)>>))

ZoneAddPattern ==
    SeqOf(<< Lits(<<"add", " ", "zone", " ", "shipping">>), Ws1,
             FirstField(<<"name">>, 1, NotComma), Ws0,
             CommaField(<<"regions">>, 2, NotComma), Ws0,
             CommaField(<<"price">>, 3, Decimal) >>)

ZoneUpdatePattern ==
    SeqOf(<< Lits(<<"update", " ", "zone", " ", "shipping", " ">>), Group(1, Number), Ws1,
             FirstField(<<"name">>, 2, NotComma), Ws0,
             CommaField(<<"regions">>, 3, NotComma), Ws0,
             CommaField(<<"price">>, 4, Decimal) >>)

\* m.group(k) when it is truthy
Has(m, k) == m.groups[k].set /\ Len(m.groups[k].val) > 0

G(m, k) == m.groups[k].val

\* m.group(k): the text, or None
GroupOrNone(m, k) == IF m.groups[k].set THEN PyStr(G(m, k)) ELSE PyNone

\* m.group(k) or ""
GroupOrEmpty(m, k) == IF Has(m, k) THEN PyStr(G(m, k)) ELSE PyStr(<<>>)

\* the dict with the entries of pairs whose condition holds: pairs is a
\* sequence of <<key, condition, value>>
Entries(pairs) ==
    LET present == SelectSeq(pairs, LAMBDA p : p[2])
    IN  [k \in {present[i][1] : i \in 1..Len(present)} |->
            present[CHOOSE i \in 1..Len(present) : present[i][1] = k][3]]

extract_shipping_zone_command(message) ==
    LET add_match    == re_search(ZoneAddPattern, message)
        update_match == re_search(ZoneUpdatePattern, message)
    IN  IF add_match.found
          THEN Dict([ action  |-> PyStr(<<"add">>),
                      name    |-> GroupOrNone(add_match, 1),
                      regions |-> IF Has(add_match, 2)
                                    THEN PyList(StripEach(Split(G(add_match, 2), ";")))
                                    ELSE PyList(<<>>),
                      price   |-> IF Has(add_match, 3) THEN PyFloat(G(add_match, 3))
                                                       ELSE PyInt(<<"0">>) ])
        ELSE IF update_match.found
          THEN Dict(Entries(<<
                 <<"action", TRUE, PyStr(<<"update">>)>>,
                 <<"zone_id", TRUE, PyInt(G(update_match, 1))>>,
                 <<"name", Has(update_match, 2), PyStr(G(update_match, 2))>>,
                 <<"regions", Has(update_match, 3),
                   PyList(StripEach(Split(G(update_match, 3), ";")))>>,
                 <<"price", Has(update_match, 4), PyFloat(G(update_match, 4))>> >>))
        ELSE NoneResult

LabelPattern ==
    SeqOf(<< Lits(<<"print", " ", "label", " ", "shipping", " ", "l", "order", " ">>),
             Group(1, Number), Ws0,
             FirstField(<<"company", " ", "carrier">>, 2, NotComma), Ws0,
             CommaField(<<"service">>, 3, NotComma) >>)

extract_shipping_label_command(message) ==
    LET label_match == re_search(LabelPattern, message)
    IN  IF label_match.found
          THEN Dict([ order_id |-> PyInt(G(label_match, 1)),
                      carrier  |-> GroupOrEmpty(label_match, 2),
                      service  |-> GroupOrEmpty(label_match, 3) ])
          ELSE NoneResult

TrackingPattern ==
    SeqOf(<< Lits(<<"tracking", " ", "shipping", " ">>),
             Opt(Lits(<<"l", "order", " ">>)), Group(1, Number) >>)

extract_tracking_command(message) ==
    LET tracking_match == re_search(TrackingPattern, message)
    IN  IF tracking_match.found
          THEN Dict([ order_id |-> PyInt(G(tracking_match, 1)) ])
          ELSE NoneResult

HistoryPattern ==
    SeqOf(<< Lits(<<"show", " ", "history", " ", "transactions">>),
             Opt(SeqOf(<<Ws1, Lits(<<"from-date", ":">>), Ws0, Group(1, NotComma)>>)),
             CommaField(<<"until", " ", "date">>, 2, NotComma),
             CommaField(<<"status">>, 3, NotComma) >>)

RatePattern ==
    SeqOf(<< Lits(<<"update", " ", "rate", " ", "exchange">>), Ws1,
             FirstField(<<"currency">>, 1, NotComma), Ws0,
             CommaField(<<"rate">>, 2, Decimal) >>)

extract_payment_command(message) ==
    LET history_match == re_search(HistoryPattern, message)
        rate_match    == re_search(RatePattern, message)
    IN  IF history_match.found
          THEN Dict([ action  |-> PyStr(<<"history">>),
                      filters |-> PyDict(Entries(<<
                          <<"after", Has(history_match, 1), PyStr(G(history_match, 1))>>,
                          <<"before", Has(history_match, 2), PyStr(G(history_match, 2))>>,
                          <<"status", Has(history_match, 3), PyStr(G(history_match, 3))>> >>)) ])
        ELSE IF rate_match.found
          THEN Dict([ action   |-> PyStr(<<"update_rate">>),
                      currency |-> GroupOrNone(rate_match, 1),
                      rate     |-> IF Has(rate_match, 2) THEN PyFloat(G(rate_match, 2))
                                                         ELSE PyNone ])
        ELSE NoneResult

CustomerFields(first) ==
    << FirstField(<<"name">>, first, NotComma), Ws0,
       CommaField(<<"email">>, first + 1, NotComma), Ws0,
       CommaField(<<"phone">>, first + 2, NotComma) >>

CustomerCreatePattern ==
    SeqOf(<<Lits(<<"create", " ", "l", "client", " ", "new">>), Ws1>> \o CustomerFields(1))

CustomerUpdatePattern ==
    SeqOf(<<Lits(<<"update", " ", "l", "client", " ">>), Group(1, Number), Ws1>>
              \o CustomerFields(2))

\* " ".join(names[1:])
JoinWords(words) ==
    Join([i \in 1..Len(words) |-> words[i]], " ")

extract_customer_info(message) ==
    LET create_match == re_search(CustomerCreatePattern, message)
        update_match == re_search(CustomerUpdatePattern, message)
        cnames       == SplitWords(G(create_match, 1))
        unames       == SplitWords(G(update_match, 2))
    IN  IF create_match.found
          THEN IF Has(create_match, 1) /\ Len(cnames) = 0
                 THEN Raised(<<"IndexError">>)
                 ELSE Dict([ action     |-> PyStr(<<"create">>),
                             first_name |-> IF Has(create_match, 1)
                                              THEN PyStr(cnames[1]) ELSE PyStr(<<>>),
                             last_name  |-> IF Has(create_match, 1)
                                              THEN PyStr(JoinWords(Tail(cnames)))
                                              ELSE PyStr(<<>>),
                             email      |-> GroupOrEmpty(create_match, 2),
                             phone      |-> GroupOrEmpty(create_match, 3) ])
        ELSE IF update_match.found
          THEN IF Has(update_match, 2) /\ Len(unames) = 0
                 THEN Raised(<<"IndexError">>)
                 ELSE Dict(Entries(<<
                        <<"action", TRUE, PyStr(<<"update">>)>>,
                        <<"customer_id", TRUE, PyInt(G(update_match, 1))>>,
                        <<"first_name", Has(update_match, 2),
                          PyStr(IF Len(unames) > 0 THEN unames[1] ELSE <<>>)>>,
                        <<"last_name", Has(update_match, 2),
                          PyStr(IF Len(unames) > 1 THEN JoinWords(Tail(unames)) ELSE <<>>)>>,
                        <<"email", Has(update_match, 3), PyStr(G(update_match, 3))>>,
                        <<"phone", Has(update_match, 4), PyStr(G(update_match, 4))>> >>))
        ELSE NoneResult

PointsPattern ==
    SeqOf(<< Alt(<<Lits(<<"add">>), Lits(<<"subtract">>)>>), Lits(<<" ">>),
             Group(1, Number),
             Lits(<<" ", "points", " ", "l", "l", "client", " ">>), Group(2, Number),
             Opt(SeqOf(<<Ws1, Lits(<<"reason", ":">>), Ws0, Group(3, Plus(AnyToken))>>)) >>)

extract_points_info(message) ==
    LET points_match == re_search(PointsPattern, message)
    IN  IF points_match.found
          THEN Dict([ points      |-> PyInt(G(points_match, 1)),
                      customer_id |-> PyInt(G(points_match, 2)),
                      action      |-> IF Contains(message, <<"add">>)
                                        THEN PyStr(<<"add">>) ELSE PyStr(<<"subtract">>),
                      reason      |-> GroupOrEmpty(points_match, 3) ])
          ELSE NoneResult

RolePattern ==
    SeqOf(<< Alt(<<Lits(<<"add">>), Lits(<<"remove">>)>>),
             Lits(<<" ", "permission", " ">>), Group(1, Plus(WordToken)),
             Lits(<<" ", "l", "l", "client", " ">>), Group(2, Number) >>)

extract_role_info(message) ==
    LET role_match == re_search(RolePattern, message)
    IN  IF role_match.found
          THEN Dict([ role        |-> PyStr(G(role_match, 1)),
                      customer_id |-> PyInt(G(role_match, 2)),
                      action      |-> IF Contains(message, <<"add">>)
                                        THEN PyStr(<<"add">>) ELSE PyStr(<<"remove">>) ])
          ELSE NoneResult

\* (?:<label>=([^,]+))?
EqField(label, k) == Opt(SeqOf(<<Lits(<<label, "=">>), Group(k, NotComma)>>))

ZoneInfoPattern ==
    SeqOf(<< Alt(<<Lits(<<"set">>), Lits(<<"create">>), Lits(<<"add">>)>>), Ws1,
             Lits(<<"zone">>), Ws1, Lits(<<"shipping">>),
             Opt(SeqOf(<<Ws1, Lits(<<"new">>)>>)), Lits(<<":">>), Ws0,
             EqField("name", 1), Opt(Comma), Ws0,
             EqField("countries", 2), Opt(Comma), Ws0,
             EqField("states", 3) >>)

extract_shipping_zone_info(message) ==
    LET zone_match == re_search(ZoneInfoPattern, message)
    IN  IF zone_match.found
          THEN Dict(Entries(<<
                 <<"name", Has(zone_match, 1), PyStr(Strip(G(zone_match, 1)))>>,
                 <<"countries", Has(zone_match, 2),
                   PyList(StripEach(Split(G(zone_match, 2), ",")))>>,
                 <<"states", Has(zone_match, 3),
                   PyList(StripEach(Split(G(zone_match, 3), ",")))>> >>))
          ELSE NoneResult

MethodInfoPattern ==
    SeqOf(<< Alt(<<Lits(<<"add">>), Lits(<<"set">>)>>), Ws1,
             Lits(<<"method">>), Ws1, Lits(<<"shipping", ":">>), Ws0,
             EqField("name", 1), Opt(Comma), Ws0,
             EqField("price", 2), Opt(Comma), Ws0,
             EqField("type", 3) >>)

extract_shipping_method_info(message) ==
    LET method_match == re_search(MethodInfoPattern, message)
    IN  IF method_match.found
          THEN IF Has(method_match, 2) /\ ~IsDecimal(G(method_match, 2))
                 THEN Raised(<<"ValueError">>)
                 ELSE Dict(Entries(<<
                        <<"title", Has(method_match, 1), PyStr(Strip(G(method_match, 1)))>>,
                        <<"cost", Has(method_match, 2), PyFloat(Strip(G(method_match, 2)))>>,
                        <<"method_id", Has(method_match, 3),
                          PyStr(Strip(G(method_match, 3)))>> >>))
          ELSE NoneResult

StatusPattern ==
    SeqOf(<< Lits(<<"update">>), Ws1, Lits(<<"status">>), Ws1, Lits(<<"order">>), Ws1,
             Group(1, Number), Ws1, Lits(<<"l">>), Group(2, Plus(NoneOf(Whitespace))),
             Opt(SeqOf(<<Ws1, Lits(<<"note", ":">>), Ws0, Group(3, Plus(AnyToken))>>)) >>)

extract_order_status_update_info(message) ==
    LET status_match == re_search(StatusPattern, message)
    IN  IF status_match.found
          THEN Dict([ order_id |-> PyInt(G(status_match, 1)),
                      status   |-> PyStr(Strip(G(status_match, 2))),
                      note     |-> IF Has(status_match, 3)
                                     THEN PyStr(Strip(G(status_match, 3)))
                                     ELSE PyStr(<<>>) ])
          ELSE NoneResult

OrderPattern == SeqOf(<<Lits(<<"order">>), Ws1, Group(1, Number)>>)

NotePattern == SeqOf(<<Lits(<<":">>), Ws0, Group(1, Plus(AnyToken)), EndOfText>>)

extract_order_note_info(message) ==
    LET order_match == re_search(OrderPattern, message)
        note_match  == re_search(NotePattern, message)
    IN  IF order_match.found /\ note_match.found
          THEN Dict([ order_id         |-> PyInt(G(order_match, 1)),
                      note             |-> PyStr(Strip(G(note_match, 1))),
                      is_customer_note |-> PyBool(Contains(message, <<"l", "l", "client">>)) ])
          ELSE NoneResult

RefundPattern ==
    SeqOf(<< Lits(<<"perform">>), Ws1, Lits(<<"refund">>), Ws1, Lits(<<"l", "order">>), Ws1,
             Group(1, Number), Ws1, Lits(<<"b", "sum">>), Ws1, Group(2, Decimal), Ws0,
             Opt(Alt(<<Lits(<<"shekel">>), Lits(<<"nis">>)>>)) >>)

ReasonPattern == SeqOf(<<Lits(<<"reason", ":">>), Ws0, Group(1, Plus(NoneOf({"."})))>>)

extract_refund_info(message) ==
    LET match        == re_search(RefundPattern, message)
        reason_match == re_search(ReasonPattern, message)
    IN  IF match.found
          THEN Dict([ order_id |-> PyInt(G(match, 1)),
                      amount   |-> PyFloat(G(match, 2)),
                      reason   |-> IF reason_match.found
                                     THEN PyStr(Strip(G(reason_match, 1)))
                                     ELSE PyStr(<<>>) ])
          ELSE NoneResult

\* product\s+([^,]+?)(?:\s+l|,|\s+<word>)
ProductBefore(word) ==
    SeqOf(<< Lits(<<"product">>), Ws1, Group(1, LazyPlus(NoneOf({","}))),
             Alt(<< SeqOf(<<Ws1, Lits(<<"l">>)>>), Comma, SeqOf(<<Ws1, Lits(<<word>>)>>) >>) >>)

\* (?:l-|<word>\s+)(\d+)
NumberAfter(word) ==
    SeqOf(<< Alt(<<Lits(<<"l", "-">>), SeqOf(<<Lits(<<word>>), Ws1>>)>>), Group(1, Number) >>)

extract_stock_quantity_info(message) ==
    LET product_match  == re_search(ProductBefore("quantity"), message)
        quantity_match == re_search(NumberAfter("quantity"), message)
    IN  IF product_match.found /\ quantity_match.found
          THEN Dict([ product_name |-> PyStr(Strip(G(product_match, 1))),
                      quantity     |-> PyInt(G(quantity_match, 1)) ])
          ELSE NoneResult

extract_threshold_info(message) ==
    LET product_match   == re_search(ProductBefore("threshold"), message)
        threshold_match == re_search(NumberAfter("threshold"), message)
    IN  IF product_match.found /\ threshold_match.found
          THEN Dict([ product_name |-> PyStr(Strip(G(product_match, 1))),
                      threshold    |-> PyInt(G(threshold_match, 1)) ])
          ELSE NoneResult

GalleryProductPattern ==
    SeqOf(<< Lits(<<"product">>), Ws1, Group(1, LazyPlus(NoneOf({":"}))),
             Alt(<< SeqOf(<<Ws0, Lits(<<":">>)>>),
                    Lits(<<"gallery", " ", "new">>),
                    SeqOf(<<Ws0, EndOfText>>) >>) >>)

extract_gallery_update_info(message) ==
    LET product_match == re_search(GalleryProductPattern, message)
    IN  IF ~product_match.found THEN NoneResult
        ELSE IF Contains(message, <<":", " ">>)
          THEN Dict([ product_name |-> PyStr(Strip(G(product_match, 1))),
                      image_urls   |-> PyList(StripEach(Split(
                                          AfterFirst(message, <<":", " ">>), ","))) ])
          ELSE NoneResult

ProductNamePattern ==
    SeqOf(<< Lits(<<"b", "name">>), Ws1, Group(1, LazyPlus(NoneOf(Digits))), Ws1,
             Lits(<<"b", "price">>) >>)

ProductPricePattern == SeqOf(<<Lits(<<"b", "price">>), Ws1, Group(1, Number)>>)

extract_product_info(message) ==
    LET name_match  == re_search(ProductNamePattern, message)
        price_match == re_search(ProductPricePattern, message)
    IN  IF name_match.found /\ price_match.found
          THEN Dict([ name          |-> PyStr(Strip(G(name_match, 1))),
                      regular_price |-> PyStr(G(price_match, 1)),
                      type          |-> PyStr(<<"simple">>),
                      stock_status  |-> PyStr(<<"instock">>) ])
          ELSE NoneResult

PercentPattern == SeqOf(<<Group(1, Number), Ws0, Lits(<<"percent">>)>>)

AmountPattern == SeqOf(<<Group(1, Number), Ws0, Lits(<<"shekel">>)>>)

CodePattern ==
    SeqOf(<< Lits(<<"code", " ", "coupon">>), Ws1,
             Group(1, Plus(OneOf(LatinWords \cup Digits \cup {"-", "_"}))) >>)

\* str(n) for a natural number n: its decimal digits
RECURSIVE DecimalDigits(_)
DecimalDigits(n) ==
    IF n < 10 THEN <<ToString(n)>>
    ELSE Append(DecimalDigits(n \div 10), ToString(n % 10))

base_data ==
    [ description          |-> PyStr(<<"automatically created coupon">>),
      minimum_amount       |-> PyStr(<<"0">>),
      usage_limit          |-> PyInt(<<"1", "0", "0">>),
      usage_limit_per_user |-> PyInt(<<"1">>),
      individual_use       |-> PyBool(TRUE) ]

\* the code made of the amount only
GeneratedCodeNoSuffix(prefix, amount, n) == <<prefix>> \o amount

\* f"SALE{amount}_{random.randint(1000, 9999)}", n the number drawn
GeneratedCode(prefix, amount, n) == <<prefix>> \o amount \o <<"_">> \o DecimalDigits(n)

\* _extract_coupon_info; n is the number random.randint returns when it is called
extract_coupon_info(message, n) ==
    LET percent_match == re_search(PercentPattern, message)
        amount_match  == re_search(AmountPattern, message)
        code_match    == re_search(CodePattern, message)
        explicit      == code_match.found
    IN  IF percent_match.found
          THEN Dict(Merge(base_data,
                 [ code          |-> PyStr(IF explicit THEN G(code_match, 1)
                                         ELSE GeneratedCode("SALE", G(percent_match, 1), n)),
                   discount_type |-> PyStr(<<"percent">>),
                   amount        |-> PyStr(G(percent_match, 1)) ]))
        ELSE IF amount_match.found
          THEN Dict(Merge(base_data,
                 [ code          |-> PyStr(IF explicit THEN G(code_match, 1)
                                         ELSE GeneratedCode("FIXED", G(amount_match, 1), n)),
                   discount_type |-> PyStr(<<"fixed_cart">>),
                   amount        |-> PyStr(G(amount_match, 1)) ]))
        ELSE NoneResult

\* text.split(sep) for a separator sep of several tokens
RECURSIVE SplitOnAcc(_, _, _)
SplitOnAcc(text, sep, current) ==
    IF Len(text) = 0 THEN <<current>>
    ELSE IF StartsWith(text, sep)
        THEN <<current>> \o SplitOnAcc(SubSeq(text, Len(sep) + 1, Len(text)), sep, <<>>)
        ELSE SplitOnAcc(Tail(text), sep, Append(current, Head(text)))

SplitOn(text, sep) == SplitOnAcc(text, sep, <<>>)

\* product\s+([^,]+?)(?:\s+l|,|\s+price\s+new|\s+b-price)
PriceProductPattern ==
    SeqOf(<< Lits(<<"product">>), Ws1, Group(1, LazyPlus(NoneOf({","}))),
             Alt(<< SeqOf(<<Ws1, Lits(<<"l">>)>>), Comma,
                    SeqOf(<<Ws1, Lits(<<"price">>), Ws1, Lits(<<"new">>)>>),
                    SeqOf(<<Ws1, Lits(<<"b", "price">>)>>) >>) >>)

\* (?:l-|price\s+new\s+|b-price\s+)(\d+)
NewPricePattern ==
    SeqOf(<< Alt(<< Lits(<<"l", "-">>),
                    SeqOf(<<Lits(<<"price">>), Ws1, Lits(<<"new">>), Ws1>>),
                    SeqOf(<<Lits(<<"b", "price">>), Ws1>>) >>),
             Group(1, Number) >>)

extract_price_update_info(message) ==
    LET product_match == re_search(PriceProductPattern, message)
        price_match   == re_search(NewPricePattern, message)
    IN  IF product_match.found /\ price_match.found
          THEN Dict([ product_name |-> PyStr(Strip(G(product_match, 1))),
                      new_price    |-> PyStr(G(price_match, 1)) ])
          ELSE NoneResult

\* (?:l|status\s+)(in stock|sold out|on backorder)
StockStatusPattern ==
    SeqOf(<< Alt(<<Lits(<<"l">>), SeqOf(<<Lits(<<"status">>), Ws1>>)>>),
             Group(1, Alt(<< Lits(<<"b", "stock">>), Lits(<<"sold-out">>),
                             Lits(<<"b", "order", " ", "in-advance">>) >>)) >>)

extract_stock_update_info(message) ==
    LET product_match == re_search(ProductBefore("status"), message)
        status_match  == re_search(StockStatusPattern, message)
    IN  IF product_match.found /\ status_match.found
          THEN Dict([ product_name |-> PyStr(Strip(G(product_match, 1))),
                      stock_status |-> PyStr(G(status_match, 1)) ])
          ELSE NoneResult

\* (?:change|update)\s+name\s+product\s+(.*?)$
OldNamePattern ==
    SeqOf(<< Alt(<<Lits(<<"change">>), Lits(<<"update">>)>>), Ws1, Lits(<<"name">>), Ws1,
             Lits(<<"product">>), Ws1, Group(1, LazyStar(AnyToken)), EndOfText >>)

extract_name_update_info(message) ==
    LET parts == SplitOn(message, <<" ", "l">>)
        old_name_match == re_search(OldNamePattern, parts[1])
        new_name == Strip(parts[Len(parts)])
    IN  IF Len(parts) >= 2 /\ old_name_match.found /\ Len(new_name) > 0
          THEN Dict([ old_name |-> PyStr(Strip(G(old_name_match, 1))),
                      new_name |-> PyStr(new_name) ])
          ELSE NoneResult

\* product\s+([^:]+?)(?:\s*:|<words>|\s*$)
ProductUntilColon(words) ==
    SeqOf(<< Lits(<<"product">>), Ws1, Group(1, LazyPlus(NoneOf({":"}))),
             Alt(<< SeqOf(<<Ws0, Lits(<<":">>)>>), Lits(words), SeqOf(<<Ws0, EndOfText>>) >>) >>)

extract_description_update_info(message) ==
    LET product_match == re_search(ProductUntilColon(<<"description", " ", "new">>), message)
        new_description ==
            IF Contains(message, <<":", " ">>)
              THEN Strip(AfterFirst(message, <<":", " ">>))
              ELSE Strip(AfterFirst(message, <<"description", " ", "new">>))
    IN  IF ~product_match.found THEN NoneResult
        ELSE IF ~Contains(message, <<":", " ">>)
                /\ ~Contains(message, <<"description", " ", "new">>) THEN NoneResult
        ELSE IF Len(new_description) = 0 THEN NoneResult
        ELSE Dict([ product_name    |-> PyStr(Strip(G(product_match, 1))),
                    new_description |-> PyStr(new_description) ])

\* product\s+([^,]+?)(?:\s+l-category|\s+category)
CategoryProductPattern ==
    SeqOf(<< Lits(<<"product">>), Ws1, Group(1, LazyPlus(NoneOf({","}))),
             Alt(<< SeqOf(<<Ws1, Lits(<<"l", "category">>)>>),
                    SeqOf(<<Ws1, Lits(<<"category">>)>>) >>) >>)

\* (?:l-category|category)\s+([^,]+?)(?:\s*$|,)
CategoryNamePattern ==
    SeqOf(<< Alt(<<Lits(<<"l", "category">>), Lits(<<"category">>)>>), Ws1,
             Group(1, LazyPlus(NoneOf({","}))),
             Alt(<<SeqOf(<<Ws0, EndOfText>>), Comma>>) >>)

extract_category_update_info(message) ==
    LET product_match  == re_search(CategoryProductPattern, message)
        category_match == re_search(CategoryNamePattern, message)
    IN  IF product_match.found /\ category_match.found
          THEN Dict([ product_name  |-> PyStr(Strip(G(product_match, 1))),
                      category_name |-> PyStr(Strip(G(category_match, 1))) ])
          ELSE NoneResult

extract_image_update_info(message) ==
    LET product_match == re_search(ProductUntilColon(<<"image", " ", "new-f">>), message)
        image_url     == Strip(AfterFirst(message, <<":", " ">>))
    IN  IF ~product_match.found THEN NoneResult
        ELSE IF ~Contains(message, <<":", " ">>) THEN NoneResult
        ELSE IF Len(image_url) = 0 THEN NoneResult
        ELSE Dict([ product_name |-> PyStr(Strip(G(product_match, 1))),
                    image_url    |-> PyStr(image_url) ])

\* <verb> order (\d+)(?:\s+<label>:?\s*(.+))?
OrderDecisionPattern(verb, label) ==
    SeqOf(<< Lits(<<verb, " ", "order", " ">>), Group(1, Number),
             Opt(SeqOf(<< Ws1, Lits(<<label>>), Opt(Lits(<<":">>)), Ws0,
                          Group(2, Plus(AnyToken)) >>)) >>)

\* match.group(k) or default
GroupOr(m, k, default) == IF Has(m, k) THEN PyStr(G(m, k)) ELSE PyStr(default)

NoReasonGiven == <<"no reason given">>

extract_approve_reject_info(message) ==
    LET approve_match == re_search(OrderDecisionPattern("approve", "note"), message)
        reject_match  == re_search(OrderDecisionPattern("reject", "reason"), message)
    IN  IF approve_match.found
          THEN Dict([ action   |-> PyStr(<<"approve">>),
                      order_id |-> PyInt(G(approve_match, 1)),
                      note     |-> GroupOr(approve_match, 2, <<>>) ])
        ELSE IF reject_match.found
          THEN Dict([ action   |-> PyStr(<<"reject">>),
                      order_id |-> PyInt(G(reject_match, 1)),
                      reason   |-> GroupOr(reject_match, 2, NoReasonGiven) ])
        ELSE NoneResult

\* update shipping (?:l-order )?(\d+)(?:\s+number tracking:?\s*([A-Za-z0-9-]+))?
\*                                   (?:\s+company carrier:?\s*(.+))?
ShippingUpdatePattern ==
    SeqOf(<< Lits(<<"update", " ", "shipping", " ">>), Opt(Lits(<<"l", "order", " ">>)),
             Group(1, Number),
             Opt(SeqOf(<< Ws1, Lits(<<"number", " ", "tracking">>), Opt(Lits(<<":">>)), Ws0,
                          Group(2, Plus(OneOf((LatinWords \ {"flat_rate"})
                                              \cup Digits \cup {"-"}))) >>)),
             Opt(SeqOf(<< Ws1, Lits(<<"company", " ", "carrier">>), Opt(Lits(<<":">>)), Ws0,
                          Group(3, Plus(AnyToken)) >>)) >>)

extract_shipping_update_info(message) ==
    LET shipping_match == re_search(ShippingUpdatePattern, message)
    IN  IF shipping_match.found
          THEN Dict([ order_id        |-> PyInt(G(shipping_match, 1)),
                      tracking_number |-> GroupOr(shipping_match, 2, <<>>),
                      carrier         |-> GroupOr(shipping_match, 3, <<>>) ])
          ELSE NoneResult

\* refund (?:l-order )?(\d+)(?:\s+products:?\s*(.+?))?(?:\s+reason:?\s*(.+))?$
ReturnPattern ==
    SeqOf(<< Lits(<<"refund", " ">>), Opt(Lits(<<"l", "order", " ">>)), Group(1, Number),
             Opt(SeqOf(<< Ws1, Lits(<<"products">>), Opt(Lits(<<":">>)), Ws0,
                          Group(2, LazyPlus(AnyToken)) >>)),
             Opt(SeqOf(<< Ws1, Lits(<<"reason">>), Opt(Lits(<<":">>)), Ws0,
                          Group(3, Plus(AnyToken)) >>)),
             EndOfText >>)

\* (\d+)\s*(?:units\s+)?(?:m-product\s+)?(\d+)
ReturnItemPattern ==
    SeqOf(<< Group(1, Number), Ws0, Opt(SeqOf(<<Lits(<<"units">>), Ws1>>)),
             Opt(SeqOf(<<Lits(<<"m", "product">>), Ws1>>)), Group(2, Number) >>)

\* the items of the products that match the item pattern, in order
RECURSIVE ReturnItems(_)
ReturnItems(products) ==
    IF Len(products) = 0 THEN <<>>
    ELSE LET product_match == re_search(ReturnItemPattern, Strip(Head(products)))
         IN  (IF product_match.found
                THEN << PyDict([ quantity   |-> PyInt(G(product_match, 1)),
                                 product_id |-> PyInt(G(product_match, 2)) ]) >>
                ELSE <<>>) \o ReturnItems(Tail(products))

extract_return_info(message) ==
    LET return_match == re_search(ReturnPattern, message)
        products_str == IF Has(return_match, 2) THEN G(return_match, 2) ELSE <<>>
    IN  IF return_match.found
          THEN Dict([ order_id |-> PyInt(G(return_match, 1)),
                      items    |-> PyList(IF Len(products_str) > 0
                                            THEN ReturnItems(Split(products_str, ","))
                                            ELSE <<>>),
                      reason   |-> GroupOr(return_match, 3, NoReasonGiven) ])
          ELSE NoneResult

-----------------------------------------------------------------------------
(* ActionAgent.handle_message (src/src/agents/action_agent.py, 815-996).    *)
(* Its result is the value the coroutine returns: a str, or whatever else   *)
(* the return statement it reached evaluated to.  The text of a response is *)
(* a sequence of symbols; the commerce operations it invoked are listed in  *)
(* the order of the calls.                                                  *)

\* random.randint(a, b) returns any of a..b: the numbers the model draws
MaxDraws == 3

SuffixMin == 1000

SuffixMax == 9999

randint(a, b) == (a..Min(b, a + MaxDraws - 2)) \cup {b}

\* the 26 extractors, by name
ExtractorNames ==
    { "shipping_zone_command", "shipping_label_command", "tracking_command",
      "payment_command", "customer_info", "points_info", "role_info",
      "shipping_zone_info", "shipping_method_info", "order_status_update_info",
      "order_note_info", "refund_info", "stock_quantity_info", "threshold_info",
      "gallery_update_info", "product_info", "coupon_info", "price_update_info",
      "stock_update_info", "name_update_info", "description_update_info",
      "category_update_info", "image_update_info", "approve_reject_info",
      "shipping_update_info", "return_info" }

\* self._extract_<name>(message); n is what random.randint returns if called
Extract(name, message, n) ==
    CASE name = "shipping_zone_command"    -> extract_shipping_zone_command(message)
      [] name = "shipping_label_command"   -> extract_shipping_label_command(message)
      [] name = "tracking_command"         -> extract_tracking_command(message)
      [] name = "payment_command"          -> extract_payment_command(message)
      [] name = "customer_info"            -> extract_customer_info(message)
      [] name = "points_info"              -> extract_points_info(message)
      [] name = "role_info"                -> extract_role_info(message)
      [] name = "shipping_zone_info"       -> extract_shipping_zone_info(message)
      [] name = "shipping_method_info"     -> extract_shipping_method_info(message)
      [] name = "order_status_update_info" -> extract_order_status_update_info(message)
      [] name = "order_note_info"          -> extract_order_note_info(message)
      [] name = "refund_info"              -> extract_refund_info(message)
      [] name = "stock_quantity_info"      -> extract_stock_quantity_info(message)
      [] name = "threshold_info"           -> extract_threshold_info(message)
      [] name = "gallery_update_info"      -> extract_gallery_update_info(message)
      [] name = "product_info"             -> extract_product_info(message)
      [] name = "coupon_info"              -> extract_coupon_info(message, n)
      [] name = "price_update_info"        -> extract_price_update_info(message)
      [] name = "stock_update_info"        -> extract_stock_update_info(message)
      [] name = "name_update_info"         -> extract_name_update_info(message)
      [] name = "description_update_info"  -> extract_description_update_info(message)
      [] name = "category_update_info"     -> extract_category_update_info(message)
      [] name = "image_update_info"        -> extract_image_update_info(message)
      [] name = "approve_reject_info"      -> extract_approve_reject_info(message)
      [] name = "shipping_update_info"     -> extract_shipping_update_info(message)
      [] name = "return_info"              -> extract_return_info(message)

\* str.lower() of a token: only Latin capitals change
LowerToken(token) ==
    CASE token = "ABC"  -> "abc"
      [] token = "SAVE" -> "save"
      [] token = "IL"   -> "il"
      [] token = "USD"  -> "usd"
      [] OTHER          -> token

Lower(message) == [i \in 1..Len(message) |-> LowerToken(message[i])]

\* how the store answers an operation's requests
OperationOutcomes == {"succeeded", "failed"}

\* return self.<method>(...): a synchronous operation sends its requests to
\* the store and returns its confirmation or error message
Operation(method, args, outcome) ==
    AgentResult("str", <<method, ": ", outcome>>, << [method |-> method, args |-> args] >>)

\* create_product (lines 73-86): one POST to products; on 201 the
\* confirmation names the product of the store's answer, which is the product
\* sent; on another status, or when the request raises, an error message
create_product(product_data, outcome) ==
    AgentResult("str",
                IF outcome = "succeeded"
                  THEN <<"new product created: ">> \o product_data.name.v
                  ELSE <<"error creating the product: ", outcome>>,
                << [method |-> "create_product",
                    args   |-> [product_data |-> PyDict(product_data)]] >>)

\* return self.<method>(...) for an async def: the call only makes the
\* coroutine object, its body does not run
CoroutineOf(method) == AgentResult("coroutine", <<method>>, <<>>)

\* except Exception as e: return f"<error handling messages>: {str(e)}"
ErrorResponse(e) == AgentResult("str", <<"error handling messages: ">> \o e, <<>>)

\* self.<name> for a name the class does not define
NoAttribute(name) == ErrorResponse(<<"AttributeError", name>>)

\* the corrective message of an operation whose phrasing was not understood
UsageHint(operation) == AgentResult("str", <<"usage hint: ", operation>>, <<>>)

\* the static list of what the agent can do (lines 959-992)
CapabilityMenu == AgentResult("str", <<"capability menu">>, <<>>)

\* the operation keywords of lines 880-950
KeywordShippingZone   == <<"zone", " ", "shipping">>
KeywordShippingMethod == <<"method", " ", "shipping">>
KeywordOrderStatus    == <<"update", " ", "status", " ", "order">>
KeywordOrderNote      == <<"add", " ", "note", " ", "l", "order">>
KeywordRefund         == <<"perform", " ", "refund">>
KeywordStockQuantity  == <<"update", " ", "quantity", " ", "stock">>
KeywordThreshold      == <<"set", " ", "alert", " ", "stock", " ", "low">>
KeywordGallery        == <<"update", " ", "gallery">>
KeywordAddProduct     == <<"add", " ", "product">>
KeywordPaymentMethod  == <<"method", " ", "payment">>
KeywordPerformPayment == <<"perform", " ", "payment">>
KeywordProcessPayment == <<"process", " ", "payment">>

\* no branch was taken: control reaches the statement after the if
Fallthrough == AgentResult("fallthrough", <<>>, <<>>)

\* the first of two consecutive statements that returns
OrElse(first, rest) == IF first.kind # "fallthrough" THEN first ELSE rest

\* data = self._extract_...(message); if data: <onMatch> else: <otherwise>,
\* inside the try block
IfExtracted(data, onMatch, otherwise) ==
    IF data.kind = "raise" THEN ErrorResponse(data.err)
    ELSE IF Truthy(data) THEN onMatch
    ELSE otherwise

\* lines 893-992: the chain of if / elif on the operation keywords
KeywordChain(message, outcome) ==
    LET text == Lower(message)
    IN  IF Contains(text, KeywordOrderStatus)
          THEN LET status_data == extract_order_status_update_info(message)
               IN  IfExtracted(status_data, Operation("update_order_status", status_data.d, outcome),
                 UsageHint("order status"))
        ELSE IF Contains(text, KeywordOrderNote)
          THEN LET note_data == extract_order_note_info(message)
               IN  IfExtracted(note_data, Operation("add_order_note", note_data.d, outcome),
                 UsageHint("order note"))
        ELSE IF Contains(text, KeywordRefund)
          THEN LET refund_data == extract_refund_info(message)
               IN  IfExtracted(refund_data, Operation("process_refund", refund_data.d, outcome),
                 UsageHint("refund"))
        ELSE IF Contains(text, KeywordStockQuantity)
          THEN LET stock_data == extract_stock_quantity_info(message)
               IN  IfExtracted(stock_data,
                   Operation("update_product_stock_quantity", stock_data.d, outcome),
                 UsageHint("stock quantity"))
        ELSE IF Contains(text, KeywordThreshold)
          THEN LET threshold_data == extract_threshold_info(message)
               IN  IfExtracted(threshold_data,
                   Operation("set_low_stock_threshold", threshold_data.d, outcome),
                 UsageHint("low stock threshold"))
        ELSE IF Contains(text, KeywordGallery)
          THEN LET gallery_data == extract_gallery_update_info(message)
               IN  IfExtracted(gallery_data, CoroutineOf("update_product_gallery"),
                 UsageHint("gallery"))
        ELSE IF Contains(text, KeywordAddProduct)
          THEN LET product_data == extract_product_info(message)
               IN  IfExtracted(product_data,
                   create_product(product_data.d, outcome),
                 UsageHint("add product"))
        ELSE IF Contains(text, KeywordPaymentMethod)
          THEN NoAttribute("_extract_payment_method_info")
        ELSE IF \/ Contains(text, KeywordPerformPayment)
                \/ Contains(text, KeywordProcessPayment)
          THEN NoAttribute("_extract_payment_info")
        ELSE CapabilityMenu

\* lines 880-890: the two if statements before the chain; each falls through
\* when its extractor finds nothing
ShippingKeywords(message, outcome) ==
    LET text == Lower(message)
    IN  OrElse(
          IF Contains(text, KeywordShippingZone)
            THEN LET zone_info == extract_shipping_zone_info(message)
                 IN  IfExtracted(zone_info,
                     Operation("create_shipping_zone", [zone_data |-> PyDict(zone_info.d)],
                               outcome),
                   Fallthrough)
            ELSE Fallthrough,
          IF Contains(text, KeywordShippingMethod)
            THEN LET method_info == extract_shipping_method_info(message)
                 IN  IfExtracted(method_info,
                     Operation("add_shipping_method",
                               [zone_id |-> PyInt(<<"1">>),
                                method_data |-> PyDict(method_info.d)], outcome),
                   Fallthrough)
            ELSE Fallthrough)

\* lines 821-875: the commands tried on every message, in this order, each an
\* if statement whose branches return; then the keywords
handle_message(message, outcome) ==
    OrElse(LET shipping_zone_info == extract_shipping_zone_command(message)
           IN  IfExtracted(shipping_zone_info,
               IF shipping_zone_info.d.action = PyStr(<<"add">>)
                 THEN Operation("create_shipping_zone",
                                [zone_data |-> PyDict(Without(shipping_zone_info.d,
                                                              {"action"}))],
                                outcome)
                 ELSE Operation("update_shipping_zone",
                                [ zone_id     |-> shipping_zone_info.d.zone_id,
                                  update_data |-> PyDict(Without(shipping_zone_info.d,
                                                    {"zone_id", "action"})) ],
                                outcome),
             Fallthrough),
    OrElse(LET shipping_label_info == extract_shipping_label_command(message)
           IN  IfExtracted(shipping_label_info,
               Operation("create_shipping_label", shipping_label_info.d, outcome),
             Fallthrough),
    OrElse(LET tracking_info == extract_tracking_command(message)
           IN  IfExtracted(tracking_info, Operation("track_shipment", tracking_info.d, outcome),
             Fallthrough),
    OrElse(LET payment_command == extract_payment_command(message)
           IN  IfExtracted(payment_command,
               IF payment_command.d.action = PyStr(<<"history">>)
                 THEN Operation("get_transaction_history",
                                [filters |-> payment_command.d.filters], outcome)
               ELSE IF payment_command.d.action = PyStr(<<"update_rate">>)
                 THEN NoAttribute("update_exchange_rate")
               ELSE Fallthrough,
             Fallthrough),
    OrElse(LET customer_info == extract_customer_info(message)
           IN  IfExtracted(customer_info,
               IF customer_info.d.action = PyStr(<<"create">>)
                 THEN Operation("create_customer",
                                [customer_data |-> PyDict(customer_info.d)], outcome)
                 ELSE Operation("update_customer",
                                [ customer_id |-> customer_info.d.customer_id,
                                  update_data |-> PyDict(Without(customer_info.d,
                                                    {"customer_id", "action"})) ],
                                outcome),
             Fallthrough),
    OrElse(LET points_info == extract_points_info(message)
           IN  IfExtracted(points_info,
               Operation("manage_customer_points",
                         [ customer_id |-> points_info.d.customer_id,
                           action      |-> points_info.d.action,
                           points      |-> points_info.d.points,
                           reason      |-> DictGet(points_info.d, "reason", PyStr(<<>>)) ],
                         outcome),
             Fallthrough),
    OrElse(LET role_info == extract_role_info(message)
           IN  IfExtracted(role_info,
               Operation("manage_customer_role",
                         [ customer_id |-> role_info.d.customer_id,
                           role        |-> role_info.d.role,
                           action      |-> role_info.d.action ], outcome),
             Fallthrough),
    OrElse(ShippingKeywords(message, outcome),
           KeywordChain(message, outcome)))))))))

-----------------------------------------------------------------------------
(* MessageManager.get_help_message (src/src/utils/message_manager.py,       *)
(* 36-77), called by Bot.help on the bot's own MessageManager.  A dict      *)
(* whose order of keys matters is a sequence of <<key, value>> pairs.       *)

\* dict.get(key, default) on a sequence of pairs
PairsGet(pairs, key, default) ==
    IF \E i \in 1..Len(pairs) : pairs[i][1] = key
      THEN pairs[CHOOSE i \in 1..Len(pairs) : pairs[i][1] = key][2]
      ELSE default

\* the help_messages section of messages.yaml: a title and the categories
\* with their commands
HelpTemplates ==
    << <<"title", <<"help title">>>>,
       <<"orders", [ title    |-> <<"order management">>,
                     commands |-> << [ command     |-> <<"update order status">>,
                                       format      |-> <<"update status order N l-S">>,
                                       description |-> <<"changes the status">> ],
                                     [ command     |-> <<"perform refund">> ] >> ]>>,
       <<"shipping", [ title    |-> <<"shipping management">>,
                       commands |-> << [ command |-> <<"add shipping zone">>,
                                         format  |-> <<"add zone shipping ...">> ] >> ]>> >>

\* what the bot's MessageManager may hold after _load_messages: the parsed
\* file; {} when opening or parsing it raised; None when the file is empty
\* (yaml.safe_load returns None); a file without help_messages; help
\* messages without a title
BotLoadOutcomes ==
    { [kind |-> "dict", d |-> [help_messages |-> HelpTemplates]],
      [kind |-> "dict", d |-> EmptyDict],
      [kind |-> "none", d |-> EmptyDict],
      [kind |-> "dict", d |-> LoadedMessages],
      [kind |-> "dict", d |-> [help_messages |-> Tail(HelpTemplates)]] }

\* the argument of /help: none, a category of the file, one it lacks, the
\* key of the title
Categories == {NoCategory, <<"orders">>, <<"shipping">>, <<"returns">>, <<"title">>}

\* the lines of one command (lines 55-60 and 70-75)
CommandLines(cmd) ==
    << <<"   * ">> \o DictGet(cmd, "command", <<>>) >>
    \o (IF "format" \in DOMAIN cmd THEN << <<"     ">> \o cmd.format >> ELSE <<>>)
    \o (IF "description" \in DOMAIN cmd THEN << <<"     ">> \o cmd.description >> ELSE <<>>)

RECURSIVE CommandsLines(_)
CommandsLines(commands) ==
    IF Len(commands) = 0 THEN <<>>
    ELSE CommandLines(Head(commands)) \o CommandsLines(Tail(commands))

\* lines 52-60: the lines of every entry of help_messages but the title
RECURSIVE CategoriesLines(_)
CategoriesLines(pairs) ==
    IF Len(pairs) = 0 THEN <<>>
    ELSE LET cat_key  == Head(pairs)[1]
             cat_data == Head(pairs)[2]
         IN  (IF cat_key # "title"
                THEN << <<Newline>> \o DictGet(cat_data, "title", <<>>) \o <<":">> >>
                     \o CommandsLines(DictGet(cat_data, "commands", <<>>))
                ELSE <<>>)
             \o CategoriesLines(Tail(pairs))

\* "\n".join(result)
RECURSIVE JoinLines(_)
JoinLines(result) ==
    IF Len(result) = 0 THEN EmptyStr
    ELSE IF Len(result) = 1 THEN Head(result)
    ELSE Head(result) \o <<Newline>> \o JoinLines(Tail(result))

\* whether a dict given as pairs has the key
HasKey(pairs, key) == \E i \in 1..Len(pairs) : pairs[i][1] = key

get_help_message(msgs, category) ==
    IF msgs.kind # "dict" THEN Raise(<<"AttributeError", "get">>)
    ELSE LET help_messages == DictGet(msgs.d, "help_messages", <<>>)
             category_data == PairsGet(help_messages, category[1], <<>>)
         IN  IF category = NoCategory
               THEN Ok(JoinLines(<< PairsGet(help_messages, "title", <<>>) >>
                                 \o CategoriesLines(help_messages)))
             ELSE IF ~HasKey(help_messages, category[1])
               THEN Ok(<<"category '">> \o category \o <<"' not found">>)
             ELSE IF category[1] = "title"
               THEN IF Len(category_data) = 0
                      THEN Ok(<<"category '">> \o category \o <<"' not found">>)
                      ELSE Raise(<<"AttributeError", "get">>)
             ELSE IF DOMAIN category_data = {}
               THEN Ok(<<"category '">> \o category \o <<"' not found">>)
             ELSE Ok(JoinLines(<< DictGet(category_data, "title", <<>>) \o <<":">> >>
                               \o CommandsLines(DictGet(category_data, "commands",
                                                        <<>>))))

-----------------------------------------------------------------------------
(* The agent called on its own: one extractor called repeatedly on one      *)
(* message, one handle_message call, or one /help command.                  *)

\* calls of one extractor on one message in one behaviour
MaxRepeats == 2

\* the messages given to the agent
AgentMessages ==
    { <<"add", " ", "zone", " ", "shipping", " ", "north">>,
      <<"add", " ", "zone", " ", "shipping", " ", "name", ":", " ", "north", ",", " ", "regions", ":", " ", "IL", ";", " ", "center", ",", " ", "price", ":", " ", "2", "0">>,
      <<"add", " ", "zone", " ", "shipping">>,
      <<"update", " ", "zone", " ", "shipping", " ", "5", " ", "name", ":", " ", "north">>,
      <<"update", " ", "zone", " ", "shipping", " ", "5", " ", "north">>,
      <<"print", " ", "label", " ", "shipping", " ", "l", "order", " ", "1", "2", "3", " ", "company", " ", "carrier", ":", " ", "post", ",", " ", "service", ":", " ", "fast">>,
      <<"tracking", " ", "shipping", " ", "l", "order", " ", "1", "2", "3">>,
      <<"tracking", " ", "shipping">>,
      <<"show", " ", "history", " ", "transactions">>,
      <<"show", " ", "history", " ", "transactions", " ", "from-date", ":", " ", "1", "0", ",", " ", "status", ":", " ", "completed">>,
      <<"update", " ", "rate", " ", "exchange", " ", "currency", ":", " ", "USD", ",", " ", "rate", ":", " ", "5">>,
      <<"update", " ", "rate", " ", "exchange", " ", "USD">>,
      <<"create", " ", "l", "client", " ", "new", " ", "name", ":", " ", "dan", " ", "cohen", ",", " ", "email", ":", " ", "a@b", ",", " ", "phone", ":", " ", "1", "2", "3">>,
      <<"create", " ", "l", "client", " ", "new", " ", "dan">>,
      <<"update", " ", "l", "client", " ", "7", " ", "name", ":", " ", "dan">>,
      <<"add", " ", "5", "0", " ", "points", " ", "l", "l", "client", " ", "7", " ", "reason", ":", " ", "vip">>,
      <<"subtract", " ", "1", "0", " ", "points", " ", "l", "l", "client", " ", "7">>,
      <<"add", " ", "permission", " ", "vip", " ", "l", "l", "client", " ", "7">>,
      <<"remove", " ", "permission", " ", "vip", " ", "l", "l", "client", " ", "7">>,
      <<"set", " ", "zone", " ", "shipping", ":", " ", "name", "=", " ", "north", ",", " ", "countries", "=", " ", "IL">>,
      <<"create", " ", "zone", " ", "shipping", " ", "new", ":">>,
      <<"add", " ", "method", " ", "shipping", ":", " ", "name", "=", " ", "fast", ",", " ", "price", "=", " ", "2", "0", ",", " ", "type", "=", " ", "flat_rate">>,
      <<"add", " ", "method", " ", "shipping", ":", " ", "price", "=", " ", "fast">>,
      <<"set", " ", "method", " ", "shipping", " ", "fast">>,
      <<"update", " ", "status", " ", "order", " ", "1", "2", "3", " ", "l", "completed", " ", "note", ":", " ", "delayed">>,
      <<"update", " ", "status", " ", "order", " ", "1", "2", "3">>,
      <<"add", " ", "note", " ", "l", "order", " ", "1", "2", "3", ":", " ", "delayed">>,
      <<"add", " ", "note", " ", "l", "l", "client", " ", "l", "order", " ", "1", "2", "3", ":", " ", "damaged">>,
      <<"add", " ", "note", " ", "l", "order", " ", "1", "2", "3">>,
      <<"perform", " ", "refund", " ", "l", "order", " ", "1", "2", "3", " ", "b", "sum", " ", "5", "0", " ", "shekel", " ", "reason", ":", " ", "damaged">>,
      <<"perform", " ", "refund", " ", "l", "order", " ", "1", "2", "3">>,
      <<"update", " ", "quantity", " ", "stock", " ", "l", "product", " ", "shirt", " ", "l", "-", "1", "0">>,
      <<"update", " ", "quantity", " ", "stock", " ", "shirt">>,
      <<"set", " ", "alert", " ", "stock", " ", "low", " ", "l", "product", " ", "shirt", " ", "l", "-", "5">>,
      <<"set", " ", "alert", " ", "stock", " ", "low", " ", "shirt">>,
      <<"update", " ", "gallery", " ", "l", "product", " ", "shirt", ":", " ", "path1", ",", " ", "path2">>,
      <<"update", " ", "gallery", " ", "shirt">>,
      <<"add", " ", "product", " ", "new", " ", "b", "name", " ", "red", " ", "shirt", " ", "b", "price", " ", "7", "0">>,
      <<"add", " ", "product", " ", "shirt">>,
      <<"method", " ", "payment", " ", "new">>,
      <<"perform", " ", "payment", " ", "l", "order", " ", "1", "2", "3">>,
      <<"process", " ", "payment", " ", "1", "2", "3">>,
      <<"create", " ", "coupon", " ", "of", " ", "2", "0", " ", "percent">>,
      <<"create", " ", "coupon", " ", "of", " ", "5", "0", " ", "shekel">>,
      <<"create", " ", "coupon", " ", "of", " ", "2", "0", " ", "percent", " ", "code", " ", "coupon", " ", "ABC", "1", "2", "3">>,
      <<"create", " ", "coupon", " ", "of", " ", "2", "0", " ", "percent", " ", "5", "0", " ", "shekel">>,
      <<"create", " ", "coupon", " ", "code", " ", "coupon", " ", "SAVE">>,
      <<"create", " ", "coupon", " ", "of", " ", "5", "0", " ", "shekel", " ", "code", " ", "coupon", " ", "SAVE">>,
      <<"what", " ", "time", " ", "?">>,
      <<"create", " ", "coupon", " ", "of", " ", "2", "0", " ", "percent", " ", "code", " ", "coupon", " ", ".", "SAVE">>,
      <<"update", " ", "price", " ", "l", "product", " ", "shirt", " ", "l", "-", "7", "0">>,
      <<"update", " ", "price", " ", "l", "product", " ", "red", " ", "shirt", " ", "b", "price", " ", "7", "0">>,
      <<"update", " ", "price", " ", "l", "product", " ", "shirt">>,
      <<"update", " ", "stock", " ", "l", "product", " ", "shirt", " ", "l", "sold-out">>,
      <<"update", " ", "stock", " ", "l", "product", " ", "shirt", " ", "status", " ", "b", "order", " ", "in-advance">>,
      <<"change", " ", "name", " ", "product", " ", "shirt", " ", "l", "red", " ", "shirt">>,
      <<"change", " ", "name", " ", "product", " ", "shirt", " ", "l", "red", " ", "l", "blue", " ", "shirt">>,
      <<"change", " ", "name", " ", "product", " ", "shirt">>,
      <<"update", " ", "description", " ", "l", "product", " ", "shirt", ":", " ", "red", " ", "shirt">>,
      <<"update", " ", "description", " ", "l", "product", " ", "shirt", " ", "description", " ", "new", " ", "red">>,
      <<"update", " ", "description", " ", "l", "product", " ", "shirt">>,
      <<"add", " ", "product", " ", "shirt", " ", "l", "category", " ", "north">>,
      <<"add", " ", "product", " ", "shirt", " ", "category", " ", "north", ",", " ", "red">>,
      <<"update", " ", "image", " ", "l", "product", " ", "shirt", ":", " ", "path1">>,
      <<"update", " ", "image", " ", "l", "product", " ", "shirt", " ", "image", " ", "new-f">>,
      <<"approve", " ", "order", " ", "1", "2", "3", " ", "note", ":", " ", "delayed">>,
      <<"approve", " ", "order", " ", "1", "2", "3">>,
      <<"reject", " ", "order", " ", "1", "2", "3">>,
      <<"reject", " ", "order", " ", "1", "2", "3", " ", "reason", " ", "damaged">>,
      <<"update", " ", "shipping", " ", "l", "order", " ", "1", "2", "3", " ", "number", " ", "tracking", ":", " ", "ABC", "1", "2", "3", " ", "company", " ", "carrier", ":", " ", "post">>,
      <<"update", " ", "shipping", " ", "1", "2", "3">>,
      <<"refund", " ", "l", "order", " ", "1", "2", "3", " ", "products", ":", " ", "5", " ", "units", " ", "m", "product", " ", "7", ",", " ", "1", "0", " ", "2", "0", ",", " ", "shirt", " ", "reason", ":", " ", "damaged">>,
      <<"refund", " ", "1", "2", "3", " ", "products", ":", " ", "1", "2", "3">>,
      <<"refund", " ", "1", "2", "3">>,
      <<"create", " ", "coupon", " ", "of", " ", "2", "0", " ", "percent", " ", "code", " ", "coupon", " ", "SAVE", ".", "1", "0">>,
      <<"create", " ", "coupon", " ", "of", " ", "2", "0", " ", "percent", " ", "code", " ", "coupon", ":", " ", "SAVE">>,
      <<"update", " ", "status", " ", "order", " ", "1", "2", "3", " ", "l", "completed", " ", "note", ":", " ", "delayed", "\n", "damaged">>,
      <<"update", " ", "status", " ", "order", " ", "1", "2", "3", " ", "l", "completed", " ", "note", ":", " ", " ", "delayed", " ", "damaged", " ">>,
      <<"update", " ", "status", " ", "order", " ", "1", "2", "3", " ", "l", "completed">>,
      <<"update", " ", "status", " ", "order", " ", "l", "completed">>,
      <<"add", " ", "product", " ", "b", "name", " ", "shirt", " ", "b", "price", " ", "7", "0">>,
      <<"add", " ", "product", " ", "b", "name", " ", "show", " ", "history", " ", "transactions", " ", "b", "price", " ", "7", "0">>,
      <<"add", " ", "product", " ", "b", "name", " ", "shirt">>,
      <<"add", " ", "product", " ", "b", "price", " ", "7", "0">> }

InitAgentAlone ==
    /\ messages = LoadedMessages
    /\ history = <<>>
    /\ max_history = DefaultMaxHistory
    /\ clock = 0
    /\ chk = NoCheck
    /\ InitCall
    /\ InitLoop
    /\ InitAgent
    /\ InitStore

orchestratorVars == <<messages, history, max_history, clock, chk>>

\* an extractor call that leaves a trace on the agent
CallExtractorRecording(name, message, n) ==
    /\ agent_pc \in {"idle", "extracting"}
    /\ Len(results) < MaxRepeats
    /\ results # <<>> => (name = extractor /\ message = agent_message)
    /\ agent_pc' = "extracting"
    /\ extractor' = name
    /\ agent_message' = message
    /\ results' = Append(results, Extract(name, message, n))
    /\ api_calls' = Append(api_calls, [method |-> name, args |-> EmptyDict])
    /\ UNCHANGED <<agent_response, bot_messages, help_category, help_response>>
    /\ UNCHANGED orchestratorVars
    /\ UNCHANGED callVars
    /\ UNCHANGED loopVars
    /\ UNCHANGED storeVars

\* self._extract_<name>(message): the call returns, or raises, and touches
\* nothing else
CallExtractor(name, message, n) ==
    /\ agent_pc \in {"idle", "extracting"}
    /\ Len(results) < MaxRepeats
    /\ results # <<>> => (name = extractor /\ message = agent_message)
    /\ agent_pc' = "extracting"
    /\ extractor' = name
    /\ agent_message' = message
    /\ results' = Append(results, Extract(name, message, n))
    /\ UNCHANGED <<agent_response, api_calls, bot_messages, help_category,
                   help_response>>
    /\ UNCHANGED orchestratorVars
    /\ UNCHANGED callVars
    /\ UNCHANGED loopVars
    /\ UNCHANGED storeVars

\* await ActionAgent.handle_message(message), run to its return
HandleMessage(message, outcome) ==
    /\ agent_pc = "idle"
    /\ agent_pc' = "handled"
    /\ agent_message' = message
    /\ agent_response' = handle_message(message, outcome)
    /\ api_calls' = api_calls \o agent_response'.calls
    /\ store_outcome' = outcome
    /\ UNCHANGED <<extractor, results, bot_messages, help_category, help_response>>
    /\ UNCHANGED orchestratorVars
    /\ UNCHANGED callVars
    /\ UNCHANGED loopVars
    /\ UNCHANGED <<num_requested, store, op_log>>

\* MessageManager.__init__ of the bot
LoadMessages(loaded) ==
    /\ agent_pc = "idle"
    /\ agent_pc' = "loaded"
    /\ bot_messages' = loaded
    /\ UNCHANGED <<agent_message, extractor, results, agent_response, api_calls,
                   help_category, help_response>>
    /\ UNCHANGED orchestratorVars
    /\ UNCHANGED callVars
    /\ UNCHANGED loopVars
    /\ UNCHANGED storeVars

\* Bot.help: get_help_message(category)
GetHelpMessage(category) ==
    /\ agent_pc = "loaded"
    /\ agent_pc' = "helped"
    /\ help_category' = category
    /\ help_response' = get_help_message(bot_messages, category)
    /\ UNCHANGED <<agent_message, extractor, results, agent_response, api_calls,
                   bot_messages>>
    /\ UNCHANGED orchestratorVars
    /\ UNCHANGED callVars
    /\ UNCHANGED loopVars
    /\ UNCHANGED storeVars

NextAgent ==
    \/ \E name \in ExtractorNames, message \in AgentMessages,
          n \in randint(SuffixMin, SuffixMax) : CallExtractor(name, message, n)
    \/ \E message \in AgentMessages, outcome \in OperationOutcomes :
          HandleMessage(message, outcome)
    \/ \E loaded \in BotLoadOutcomes : LoadMessages(loaded)
    \/ \E category \in Categories : GetHelpMessage(category)

SpecAgent == InitAgentAlone /\ [][NextAgent]_vars

-----------------------------------------------------------------------------
(* The store operations of ActionAgent called directly.  A request to the   *)
(* commerce API is answered by a response (a status and a JSON body: the   *)
(* sequence of the objects read from it, empty when none is read) or        *)
(* raises; what the store answers is an input of the call.  A call returns  *)
(* its message and leaves the requests it sent, each with its answer.       *)
(* Amounts and points are integers; a message is a record of its kind and   *)
(* of the values its text shows.                                            *)

Response(status, body) == [kind |-> "response", status |-> status, body |-> body]

\* the request raised (a connection error, a timeout)
RequestRaised == [kind |-> "raise", status |-> 0, body |-> <<>>]

Path(resource, id, sub) == [resource |-> resource, id |-> id, sub |-> sub]

Request(verb, path, data, answer) ==
    [verb |-> verb, path |-> path, data |-> data, answer |-> answer]

\* what a call did: the message it returned and the requests it sent
Returns(result, sent) == [result |-> result, sent |-> sent]

Message(kind, shown) == [kind |-> kind, shown |-> shown]

\* response.status_code == status, for a request that returned
Answered(answer, status) == answer.kind = "response" /\ answer.status = status

\* f"...: {response.status_code}" or f"...: {str(e)}"
Failure(answer) == [exception |-> answer.kind = "raise", status |-> answer.status]

\* lines 1405-1407 without the comparison with the order's total
RefundAmountRequested(amount, total) == amount

\* lines 1405-1407: if amount > total: amount = total
RefundAmount(amount, total) == IF amount > total THEN total ELSE amount

\* line 1435 with every answer of the refunds endpoint taken as an acceptance
RefundAcceptedAlways(answer) == answer.kind = "response"

\* line 1435: response.status_code in [200, 201]
RefundAccepted(answer) == Answered(answer, 200) \/ Answered(answer, 201)

\* f"refund of {amount} performed for order {order_id}" (lines 1425, 1437)
RefundPerformed(amount, order_id) ==
    Message("refund performed", [amount |-> amount, order_id |-> order_id])

\* an exception leaves the call: what the caller's except clause receives
Propagates(answer) == Message("raise", Failure(answer))

\* lines 1410-1425, process_manual_refund: the order's status is set to
\* refunded and a customer note tells the amount and the reason
process_manual_refund(order_id, amount, reason, refunded, noted) ==
    LET update == Request("PUT", Path("orders", order_id, ""),
                          [status |-> "refunded"], refunded)
        note   == Request("POST", Path("orders", order_id, "notes"),
                          [ note |-> [amount |-> amount, reason |-> reason],
                            customer_note |-> TRUE ], noted)
    IN  IF refunded.kind = "raise"
          THEN Returns(Propagates(refunded), <<update>>)
        ELSE IF ~Answered(refunded, 200)
          THEN Returns(Message("order status update error", Failure(refunded)),
                       <<update>>)
        ELSE IF noted.kind = "raise"
          THEN Returns(Propagates(noted), <<update, note>>)
        ELSE IF ~Answered(noted, 201)
          THEN Returns(Message("note error", Failure(noted)), <<update, note>>)
        ELSE Returns(RefundPerformed(amount, order_id), <<update, note>>)

\* lines 1455-1456: except Exception as e: return f"refund error: {str(e)}"
RefundExcept(call) ==
    IF call.result.kind = "raise"
      THEN Returns(Message("refund error", call.result.shown), call.sent)
      ELSE call

\* lines 1427-1450: the automatic refund and, when the refunds endpoint does
\* not accept it, the manual one; the manual refund of line 1442 runs inside
\* the try, so one that raises is run again by the except clause (line 1446)
AutomaticRefund(order_id, amount, reason, a) ==
    LET refund == Request("POST", Path("orders", order_id, "refunds"),
                          [amount |-> amount, reason |-> reason, api_refund |-> TRUE],
                          a.refund)
        first  == process_manual_refund(order_id, amount, reason, a.refunded, a.noted)
        again  == process_manual_refund(order_id, amount, reason, a.refunded2, a.noted2)
    IN  IF RefundAccepted(a.refund)
          THEN Returns(RefundPerformed(amount, order_id), <<refund>>)
        ELSE IF a.refund.kind = "raise"
          THEN Returns(first.result, <<refund>> \o first.sent)
        ELSE IF first.result.kind = "raise"
          THEN Returns(again.result, <<refund>> \o first.sent \o again.sent)
        ELSE Returns(first.result, <<refund>> \o first.sent)

\* lines 1377-1456
process_refund(order_id, amount, reason, a) ==
    LET get      == Request("GET", Path("orders", order_id, ""), None, a.get)
        order    == a.get.body[1]
        complete == Request("PUT", Path("orders", order_id, ""),
                            [status |-> "completed"], a.complete)
        before   == IF order.status \notin {"completed", "processing"}
                      THEN <<get, complete>> ELSE <<get>>
        used     == RefundAmount(amount, order.total)
        refunded == IF order.payment_method \in {"ppec_paypal", "stripe"}
                      THEN AutomaticRefund(order_id, used, reason, a)
                      ELSE process_manual_refund(order_id, used, reason,
                                                 a.refunded, a.noted)
    IN  IF a.get.kind = "raise"
          THEN Returns(Message("refund error", Failure(a.get)), <<get>>)
        ELSE IF ~Answered(a.get, 200)
          THEN Returns(Message("order details error", Failure(a.get)), <<get>>)
        ELSE IF Len(before) = 2 /\ a.complete.kind = "raise"
          THEN Returns(Message("refund error", Failure(a.complete)), before)
        ELSE IF Len(before) = 2 /\ ~Answered(a.complete, 200)
          THEN Returns(Message("order status update error", Failure(a.complete)), before)
        ELSE RefundExcept(Returns(refunded.result, before \o refunded.sent))

\* order_response.json() of an order with no fields, read through the
\* defaults of order.get(...); the one order that is falsy
EmptyOrder == [status |-> "", total |-> 0, payment_method |-> "", line_items |-> <<>>]

\* the statuses an order of the store goes through
OrderStatuses == {"pending", "on-hold", "processing", "completed", "refunded",
                  "cancelled"}

OrderTotals == {50, 100}

\* the payment methods of line 1427 and one the refunds endpoint does not serve
PaymentMethods == {"ppec_paypal", "stripe", "cod"}

\* order_response.json(): the fields of an order the operations read
OrdersWith(lineItems) ==
    [ status : OrderStatuses, total : OrderTotals,
      payment_method : PaymentMethods, line_items : lineItems ]

OrderIdsOfStore == {123}

RefundAmounts == {30, 100, 120}

RefundReasons == {<<"damaged">>}

\* the answers of the store to a request that changes it: one of the
\* statuses, or the request raises
AnswersOf(statuses) == {Response(s, <<>>) : s \in statuses} \cup {RequestRaised}

ChangeAnswers == AnswersOf({200, 201, 500})

\* the answers of the store to GET orders/{id}
OrderAnswers(lineItems) ==
    {Response(200, <<o>>) : o \in OrdersWith(lineItems)}
        \cup {Response(404, <<>>), RequestRaised}

\* what the store answers to each request process_refund can send
RefundAnswers ==
    [ get : OrderAnswers({<<>>}) \cup {Response(200, <<EmptyOrder>>)},
      complete : AnswersOf({200, 500}), refund : ChangeAnswers,
      refunded : AnswersOf({200, 500}), noted : AnswersOf({201, 500}),
      refunded2 : AnswersOf({200, 500}), noted2 : AnswersOf({201, 500}) ]

\* one call of an operation: its arguments, the requests it sent, its result
Called(op, args, call) ==
    [op |-> op, args |-> args, sent |-> call.sent, result |-> call.result]

\* lines 1320-1329, get_order: the order of a 200 answer; any other answer
\* and a request that raised raise
get_order(order_id, answer) ==
    LET get == Request("GET", Path("orders", order_id, ""), None, answer)
    IN  IF Answered(answer, 200)
          THEN Returns(Message("order", answer.body), <<get>>)
          ELSE Returns(Propagates(answer), <<get>>)

\* lines 1362-1375, add_order_note: one POST, whose failure is swallowed
add_order_note(order_id, note, is_customer_note, answer) ==
    LET post == Request("POST", Path("orders", order_id, "notes"),
                        [note |-> note, customer_note |-> is_customer_note], answer)
    IN  Returns(IF Answered(answer, 201) THEN Message("note added", Failure(answer))
                ELSE Message("note error", Failure(answer)), <<post>>)

\* line 2149 with every order taken as one that can be approved
CanApproveAny(status) == TRUE

\* line 2149: if current_status != "pending": return the refusal
CanApprove(status) == status = "pending"

\* lines 2185 and 2263: if current_status in ["completed", "refunded", "cancelled"]
CanCancel(status) == status \notin {"completed", "refunded", "cancelled"}

\* f"cannot {verb} an order of status {current_status}" (lines 2150, 2186, 2264)
Refusal(verb, current_status) ==
    Message("refused", [verb |-> verb, status |-> current_status])

\* self.wcapi.put(f"orders/{order_id}", {"status": status})
StatusUpdate(order_id, status, answer) ==
    Request("PUT", Path("orders", order_id, ""), [status |-> status], answer)

\* lines 2130-2165
approve_order(order_id, note, a) ==
    LET got    == get_order(order_id, a.get)
        order  == a.get.body[1]
        update == StatusUpdate(order_id, "processing", a.update)
        noted  == add_order_note(order_id, <<"order approved">> \o note, FALSE, a.noted)
    IN  IF got.result.kind = "raise"
          THEN Returns(Message("approve error", got.result.shown), got.sent)
        ELSE IF order = EmptyOrder
          THEN Returns(Message("order not found", [order_id |-> order_id]), got.sent)
        ELSE IF ~CanApprove(order.status)
          THEN Returns(Refusal("approve", order.status), got.sent)
        ELSE IF a.update.kind = "raise"
          THEN Returns(Message("approve error", Failure(a.update)),
                       got.sent \o <<update>>)
        ELSE IF ~Answered(a.update, 200)
          THEN Returns(Message("approve error", Failure(a.update)),
                       got.sent \o <<update>>)
        ELSE Returns(Message("approved", [order_id |-> order_id]),
                     got.sent \o <<update>>
                        \o (IF note # <<>> THEN noted.sent ELSE <<>>))

\* lines 2167-2201
reject_order(order_id, reason, a) ==
    LET got    == get_order(order_id, a.get)
        order  == a.get.body[1]
        update == StatusUpdate(order_id, "cancelled", a.update)
        noted  == add_order_note(order_id, <<"order rejected">> \o reason, TRUE, a.noted)
    IN  IF got.result.kind = "raise"
          THEN Returns(Message("reject error", got.result.shown), got.sent)
        ELSE IF order = EmptyOrder
          THEN Returns(Message("order not found", [order_id |-> order_id]), got.sent)
        ELSE IF ~CanCancel(order.status)
          THEN Returns(Refusal("reject", order.status), got.sent)
        ELSE IF a.update.kind = "raise" \/ ~Answered(a.update, 200)
          THEN Returns(Message("reject error", Failure(a.update)),
                       got.sent \o <<update>>)
        ELSE Returns(Message("rejected", [order_id |-> order_id]),
                     got.sent \o <<update>> \o noted.sent)

RECURSIVE Restock(_, _)
\* lines 2276-2283: one PUT products/{product_id} for every line item with a
\* product and a quantity, up to the first one that raises; answers holds one
\* answer for each line item
Restock(line_items, answers) ==
    IF line_items = <<>> THEN <<>>
    ELSE LET item == Head(line_items)
             put  == Request("PUT", Path("products", item.product_id, ""),
                             [stock_quantity |-> <<"+=", item.quantity>>],
                             Head(answers))
         IN  IF item.product_id # 0 /\ item.quantity # 0
               THEN IF Head(answers).kind = "raise" THEN <<put>>
                    ELSE <<put>> \o Restock(Tail(line_items), Tail(answers))
               ELSE Restock(Tail(line_items), Tail(answers))

\* lines 2246-2295
cancel_order(order_id, reason, restock, a) ==
    LET got     == get_order(order_id, a.get)
        order   == a.get.body[1]
        update  == StatusUpdate(order_id, "cancelled", a.update)
        puts    == IF restock THEN Restock(order.line_items, a.restock) ELSE <<>>
        raised  == puts # <<>> /\ puts[Len(puts)].answer.kind = "raise"
        noted   == add_order_note(order_id,
                                  <<"order cancelled">> \o reason
                                     \o (IF restock THEN <<"items restocked">>
                                         ELSE <<>>),
                                  TRUE, a.noted)
    IN  IF got.result.kind = "raise"
          THEN Returns(Message("cancel error", got.result.shown), got.sent)
        ELSE IF order = EmptyOrder
          THEN Returns(Message("order not found", [order_id |-> order_id]), got.sent)
        ELSE IF ~CanCancel(order.status)
          THEN Returns(Refusal("cancel", order.status), got.sent)
        ELSE IF a.update.kind = "raise" \/ ~Answered(a.update, 200)
          THEN Returns(Message("cancel error", Failure(a.update)),
                       got.sent \o <<update>>)
        ELSE IF raised
          THEN Returns(Message("cancel error", Failure(puts[Len(puts)].answer)),
                       got.sent \o <<update>> \o puts)
        ELSE Returns(Message("cancelled", [order_id |-> order_id]),
                     got.sent \o <<update>> \o puts \o noted.sent)

\* the line items of the orders cancelled here: none, one, one with no
\* quantity, and two
LineItems ==
    { <<>>,
      <<[product_id |-> 7, quantity |-> 2]>>,
      <<[product_id |-> 7, quantity |-> 0]>>,
      <<[product_id |-> 7, quantity |-> 2], [product_id |-> 8, quantity |-> 1]>> }

MaxLineItems == 2

\* the answers to GET orders/{id} with orders of every status
StatusAnswers(lineItems) ==
    { Response(200, <<[status |-> s, total |-> 50, payment_method |-> "cod",
                      line_items |-> l]>>) : s \in OrderStatuses, l \in lineItems }
        \cup {Response(200, <<EmptyOrder>>), Response(404, <<>>), RequestRaised}

\* what the store answers to each request approve_order and reject_order can send
OrderAnswersOf(lineItems) ==
    [ get : StatusAnswers(lineItems), update : AnswersOf({200, 500}),
      noted : AnswersOf({201, 500}) ]

\* what the store answers to each request cancel_order can send
CancelAnswers ==
    [ get : StatusAnswers(LineItems), update : AnswersOf({200, 500}),
      noted : AnswersOf({201, 500}),
      restock : [1..MaxLineItems -> {Response(200, <<>>), RequestRaised}] ]

Notes == {<<>>, <<"checked">>}

\* no operation was called yet
Idle == op_log = <<>>

\* the variables no operation called on the store directly touches
StoreFrame ==
    /\ UNCHANGED <<messages, history, max_history, clock, chk>>
    /\ UNCHANGED callVars
    /\ UNCHANGED loopVars
    /\ UNCHANGED agentVars
    /\ UNCHANGED <<store_outcome, num_requested>>

\* result = action_agent.process_refund(order_id, amount, reason)
ProcessRefund(order_id, amount, reason, a) ==
    /\ Idle
    /\ op_log' = <<Called("process_refund",
                          [order_id |-> order_id, amount |-> amount, reason |-> reason],
                          process_refund(order_id, amount, reason, a))>>
    /\ UNCHANGED store
    /\ StoreFrame

\* result = action_agent.approve_order(order_id, note)
ApproveOrder(order_id, note, a) ==
    /\ Idle
    /\ op_log' = <<Called("approve_order", [order_id |-> order_id, note |-> note],
                          approve_order(order_id, note, a))>>
    /\ UNCHANGED store
    /\ StoreFrame

\* result = action_agent.reject_order(order_id, reason)
RejectOrder(order_id, reason, a) ==
    /\ Idle
    /\ op_log' = <<Called("reject_order", [order_id |-> order_id, reason |-> reason],
                          reject_order(order_id, reason, a))>>
    /\ UNCHANGED store
    /\ StoreFrame

\* result = action_agent.cancel_order(order_id, reason, restock)
CancelOrder(order_id, reason, restock, a) ==
    /\ Idle
    /\ op_log' = <<Called("cancel_order",
                          [order_id |-> order_id, reason |-> reason,
                           restock |-> restock],
                          cancel_order(order_id, reason, restock, a))>>
    /\ UNCHANGED store
    /\ StoreFrame

\* the customer of GET customers/{id}: whether the JSON is empty, the shape
\* of its meta_data and the loyalty_points meta_data holds as a dict
Customer(meta_data, loyalty_points) ==
    [empty |-> FALSE, meta_data |-> meta_data, loyalty_points |-> loyalty_points]

EmptyCustomer == [empty |-> TRUE, meta_data |-> "absent", loyalty_points |-> 0]

\* customer.get("meta_data", {}): a dict, the list the commerce API sends,
\* or no meta_data at all
MetaDataShapes == {"dict", "list", "absent"}

\* lines 1761-1800, add_customer_note: the customer is read again and its
\* notes are written back; a failure is swallowed
add_customer_note(customer_id, note, a) ==
    LET get == Request("GET", Path("customers", customer_id, ""), None, a.note_get)
        put == Request("PUT", Path("customers", customer_id, ""),
                       [key |-> "customer_notes", value |-> note], a.note_put)
    IN  IF a.note_get.kind = "raise" THEN <<get>>
        ELSE IF a.note_get.body[1].empty THEN <<get>>
        ELSE IF a.note_get.body[1].meta_data = "list" THEN <<get>>
        ELSE <<get, put>>

\* line 1728 with the sum kept at zero or above
NewPointsAddClamped(current_points, points) ==
    IF current_points + points < 0 THEN 0 ELSE current_points + points

\* line 1728: new_points = current_points + points
NewPointsAdd(current_points, points) == current_points + points

\* line 1730: new_points = max(0, current_points - points)
NewPointsSubtract(current_points, points) == Max(0, current_points - points)

\* lines 1705-1759
manage_customer_points(customer_id, action, points, reason, a) ==
    LET get      == Request("GET", Path("customers", customer_id, ""), None, a.get)
        customer == a.get.body[1]
        current_points ==
            IF customer.meta_data = "dict" THEN customer.loyalty_points ELSE 0
        new_points ==
            IF action = "add" THEN NewPointsAdd(current_points, points)
            ELSE NewPointsSubtract(current_points, points)
        put      == Request("PUT", Path("customers", customer_id, ""),
                            [key |-> "loyalty_points", value |-> new_points],
                            a.update)
        note     == <<IF action = "add" THEN "+" ELSE "-", points>>
    IN  IF a.get.kind = "raise"
          THEN Returns(Message("points error", Failure(a.get)), <<get>>)
        ELSE IF customer.empty
          THEN Returns(Message("customer not found", [customer_id |-> customer_id]),
                       <<get>>)
        ELSE IF customer.meta_data = "list"
          THEN Returns(Message("points error",
                               [exception |-> TRUE, status |-> 0]), <<get>>)
        ELSE IF action \notin {"add", "subtract"}
          THEN Returns(Message("invalid action", [action |-> action]), <<get>>)
        ELSE IF a.update.kind = "raise"
          THEN Returns(Message("points error", Failure(a.update)), <<get, put>>)
        ELSE IF ~Answered(a.update, 200)
          THEN Returns(Message("points update error", Failure(a.update)),
                       <<get, put>>)
        ELSE Returns(Message("points updated", [new_points |-> new_points]),
                     <<get, put>> \o add_customer_note(customer_id, note, a))

CustomerIds == {5}

PointsActions == {"add", "subtract", "set"}

\* the points of a call; the signature takes any int
PointsValues == {-5, 0, 3, 10}

StoredPoints == {0, 4}

\* the answers to GET customers/{id}
CustomerAnswers ==
    {Response(200, <<Customer(m, n)>>) : m \in MetaDataShapes, n \in StoredPoints}
        \cup {Response(404, <<EmptyCustomer>>), RequestRaised}

\* what the store answers to each request manage_customer_points can send
PointsAnswers ==
    [ get : CustomerAnswers, update : AnswersOf({200, 500}),
      note_get : CustomerAnswers, note_put : AnswersOf({200, 500}) ]

\* result = action_agent.manage_customer_points(customer_id, action, points)
ManageCustomerPoints(customer_id, action, points, a) ==
    /\ Idle
    /\ op_log' = <<Called("manage_customer_points",
                          [customer_id |-> customer_id, action |-> action,
                           points |-> points],
                          manage_customer_points(customer_id, action, points,
                                                 <<>>, a))>>
    /\ UNCHANGED store
    /\ StoreFrame

\* an item of the store: a product or a category
Item(id, name) == [id |-> id, name |-> name]

\* the store's search: the items whose name holds the searched words
NameContains(name, term) ==
    \E i \in 0..(Len(name) - Len(term)) : SubSeq(name, i + 1, i + Len(term)) = term

RECURSIVE Search(_, _)
\* GET products?search=term / GET products/categories?search=term
Search(items, term) ==
    IF items = <<>> THEN <<>>
    ELSE (IF NameContains(Head(items).name, term) THEN <<Head(items)>> ELSE <<>>)
            \o Search(Tail(items), term)

RECURSIVE FirstHolding(_, _)
\* lines 2776-2778 with the name compared as the store's search compares it
FirstHolding(items, name) ==
    IF items = <<>> THEN 0
    ELSE IF NameContains(Head(items).name, name) THEN Head(items).id
    ELSE FirstHolding(Tail(items), name)

RECURSIVE FirstNamed(_, _)
\* the id of the first item whose name is exactly the given one, 0 for None
\* (lines 2776-2778; next(...) of line 1063)
FirstNamed(items, name) ==
    IF items = <<>> THEN 0
    ELSE IF Head(items).name = name THEN Head(items).id
    ELSE FirstNamed(Tail(items), name)

RECURSIVE WithoutItem(_, _)
\* the store after DELETE .../{id}?force=true was carried out
WithoutItem(items, id) ==
    IF items = <<>> THEN <<>>
    ELSE (IF Head(items).id = id THEN <<>> ELSE <<Head(items)>>)
            \o WithoutItem(Tail(items), id)

\* how the store answers a search: with the matching items, with an error
\* status, or the request raises
Lookups == {"found", "failed", "raised"}

SearchAnswer(items, term, lookup) ==
    IF lookup = "found" THEN Response(200, Search(items, term))
    ELSE IF lookup = "failed" THEN Response(500, <<>>)
    ELSE RequestRaised

\* lines 2761-2781 with the first product the search returned taken
get_product_id_by_search(product_name, answer) ==
    IF Answered(answer, 200) THEN FirstHolding(answer.body, product_name) ELSE 0

\* lines 2761-2781, get_product_id_by_name: None (0) when the search did
\* not answer 200, when it raised, and when no product has exactly the name
get_product_id_by_name(product_name, answer) ==
    IF Answered(answer, 200) THEN FirstNamed(answer.body, product_name) ELSE 0

\* lines 320 and 1071: response.status_code in [200, 204]
Deleted(answer) == Answered(answer, 200) \/ Answered(answer, 204)

\* lines 300-331
delete_product(product_name, a) ==
    LET search     == Request("GET", Path("products", 0, ""),
                              [search |-> product_name], a.search)
        product_id == get_product_id_by_name(product_name, a.search)
        delete     == Request("DELETE", Path("products", product_id, ""),
                              [force |-> TRUE], a.delete)
    IN  IF product_id = 0
          THEN Returns(Message("product deleted", [name |-> product_name]), <<search>>)
        ELSE IF a.delete.kind = "raise"
          THEN Returns(Message("product delete error", Failure(a.delete)),
                       <<search, delete>>)
        ELSE IF Deleted(a.delete)
          THEN Returns(Message("product deleted", [name |-> product_name]),
                       <<search, delete>>)
        ELSE Returns(Message("product delete error", Failure(a.delete)),
                     <<search, delete>>)

\* lines 1050-1083; the JSON of a search that did not answer 200 is the
\* API's error object, whose keys have no "name": line 1063 raises
delete_category(category_name, a) ==
    LET search      == Request("GET", Path("products/categories", 0, ""),
                               [search |-> category_name], a.search)
        category_id == IF Answered(a.search, 200)
                         THEN FirstNamed(a.search.body, category_name) ELSE 0
        delete      == Request("DELETE", Path("products/categories", category_id, ""),
                               [force |-> TRUE], a.delete)
    IN  IF ~Answered(a.search, 200)
          THEN Returns(Message("category delete error", Failure(a.search)), <<search>>)
        ELSE IF category_id = 0
          THEN Returns(Message("category deleted", [name |-> category_name]),
                       <<search>>)
        ELSE IF a.delete.kind = "raise"
          THEN Returns(Message("category delete error", Failure(a.delete)),
                       <<search, delete>>)
        ELSE IF Deleted(a.delete)
          THEN Returns(Message("category deleted", [name |-> category_name]),
                       <<search, delete>>)
        ELSE Returns(Message("category delete error", Failure(a.delete)),
                     <<search, delete>>)

\* the delete requests of a call
DeletesOf(sent) == SelectSeq(sent, LAMBDA r : r.verb = "DELETE")

\* the store carries out a delete request it answers with 200 or 204
AfterDeletes(items, sent) ==
    IF DeletesOf(sent) # <<>> /\ (Answered(DeletesOf(sent)[1].answer, 200)
                                    \/ Answered(DeletesOf(sent)[1].answer, 204))
      THEN WithoutItem(items, DeletesOf(sent)[1].path.id)
      ELSE items

\* the names given to the items of the store and to the delete calls
ItemNames == {<<"shirt">>, <<"shirt", "red">>}

\* the items of the store at the start: none, one of the name, one whose
\* name only holds it, two of the same name, both kinds
ItemLists ==
    { <<>>,
      <<Item(1, <<"shirt">>)>>,
      <<Item(2, <<"shirt", "red">>)>>,
      <<Item(1, <<"shirt">>), Item(3, <<"shirt">>)>>,
      <<Item(2, <<"shirt", "red">>), Item(1, <<"shirt">>)>> }

DeleteAnswers == AnswersOf({200, 204, 500})

\* the number of delete calls in a row
MaxDeletes == 2

DeleteOps == {"delete_product", "delete_category"}

\* the calls made so far are delete calls, fewer than MaxDeletes
MayDelete ==
    /\ Len(op_log) < MaxDeletes
    /\ \A i \in 1..Len(op_log) : op_log[i].op \in DeleteOps

\* result = action_agent.delete_product(product_name)
DeleteProduct(product_name, lookup, answer) ==
    LET call == delete_product(product_name,
                               [search |-> SearchAnswer(store.products, product_name,
                                                        lookup),
                                delete |-> answer])
    IN  /\ MayDelete
        /\ op_log' = Append(op_log, Called("delete_product",
                                           [name |-> product_name], call))
        /\ store' = [store EXCEPT !.products = AfterDeletes(@, call.sent)]
        /\ StoreFrame

\* result = action_agent.delete_category(category_name)
DeleteCategory(category_name, lookup, answer) ==
    LET call == delete_category(category_name,
                                [search |-> SearchAnswer(store.categories,
                                                         category_name, lookup),
                                 delete |-> answer])
    IN  /\ MayDelete
        /\ op_log' = Append(op_log, Called("delete_category",
                                           [name |-> category_name], call))
        /\ store' = [store EXCEPT !.categories = AfterDeletes(@, call.sent)]
        /\ StoreFrame

InitStoreAlone ==
    /\ messages = LoadedMessages
    /\ history = <<>>
    /\ clock = 0
    /\ max_history = DefaultMaxHistory
    /\ chk = NoCheck
    /\ InitCall
    /\ InitLoop
    /\ InitAgent
    /\ store_outcome = None
    /\ num_requested = <<>>
    /\ \E items \in ItemLists : store = [products |-> items, categories |-> items]
    /\ op_log = <<>>

NextStore ==
    \/ /\ Idle
       /\ \E order_id \in OrderIdsOfStore, amount \in RefundAmounts,
             reason \in RefundReasons, a \in RefundAnswers :
             ProcessRefund(order_id, amount, reason, a)
    \/ /\ Idle
       /\ \E order_id \in OrderIdsOfStore, note \in Notes,
             a \in OrderAnswersOf({<<>>}) :
             ApproveOrder(order_id, note, a)
    \/ /\ Idle
       /\ \E order_id \in OrderIdsOfStore, reason \in Notes,
             a \in OrderAnswersOf({<<>>}) :
             RejectOrder(order_id, reason, a)
    \/ /\ Idle
       /\ \E order_id \in OrderIdsOfStore, reason \in Notes, restock \in BOOLEAN,
             a \in CancelAnswers :
             CancelOrder(order_id, reason, restock, a)
    \/ /\ Idle
       /\ \E customer_id \in CustomerIds, action \in PointsActions,
             points \in PointsValues, a \in PointsAnswers :
             ManageCustomerPoints(customer_id, action, points, a)
    \/ /\ MayDelete
       /\ \E name \in ItemNames, lookup \in Lookups, answer \in DeleteAnswers :
             DeleteProduct(name, lookup, answer)
    \/ /\ MayDelete
       /\ \E name \in ItemNames, lookup \in Lookups, answer \in DeleteAnswers :
             DeleteCategory(name, lookup, answer)

SpecStore == InitStoreAlone /\ [][NextStore]_vars

-----------------------------------------------------------------------------
(* Properties *)

\* the call in progress, or the last one, has obtained a validated intent
Resolved == llmCalls = 1 /\ query_llm(llm_reply).ok

Finished == pc \in {"done", "idle"} /\ llmCalls = 1

TemplatesLoaded == "error_messages" \in DOMAIN messages

NullOrAbsent(param, params) == param \notin DOMAIN params \/ params[param] = None

SomeRequiredMissing(agent, method, params) ==
    /\ HasEntry(agent, method)
    /\ \E q \in Range(RequiredParams[agent][method]) : NullOrAbsent(q, params)

Position(seq, x) == CHOOSE i \in 1..Len(seq) : seq[i] = x

\* C1: when the resolved (agent, method) has an entry in the required-parameter
\* table and a required parameter is absent or null, no handler call is made
\* for the message and the response is the missing-information message, which
\* names the missing parameters.
C1_MissingParamsBlockDispatch ==
    (Resolved /\ SomeRequiredMissing(response_data.agent, response_data.method,
                                     response_data.params))
        => /\ handlerCalls = 0
           /\ pc # "dispatch"
           /\ handled = <<>>
           /\ Finished =>
                /\ respKind = "missing"
                /\ response.ok
                /\ Head(response.val) = "Missing information: "
                /\ \A q \in Range(RequiredParams[response_data.agent][response_data.method]) :
                       NullOrAbsent(q, response_data.params) => q \in Range(response.val)

C1_Witness ==
    /\ pc = "done"
    /\ response_data.agent = "action"
    /\ response_data.method = "create_product"
    /\ "price" \in DOMAIN response_data.params
    /\ response_data.params["price"] = None
    /\ respKind = "missing"

\* C2: _check_required_params returns exactly the required parameters of
\* (agent, method) that are absent from params or null, each once and in the
\* table's order; for a pair the table does not list it returns the empty list;
\* action/create_product with {name: X, price: null} yields [price].
C2_CheckRequiredParams ==
    chk.done
        => IF HasEntry(chk.agent, chk.method)
             THEN LET required == RequiredParams[chk.agent][chk.method]
                  IN  /\ \A i \in 1..Len(chk.result) :
                            /\ chk.result[i] \in Range(required)
                            /\ NullOrAbsent(chk.result[i], chk.params)
                      /\ \A q \in Range(required) :
                            NullOrAbsent(q, chk.params) => q \in Range(chk.result)
                      /\ \A i, j \in 1..Len(chk.result) :
                            i < j => Position(required, chk.result[i])
                                       < Position(required, chk.result[j])
                      /\ (/\ chk.agent = "action"
                          /\ chk.method = "create_product"
                          /\ DOMAIN chk.params = {"name", "price"}
                          /\ chk.params["name"] = "v"
                          /\ chk.params["price"] = None)
                            => chk.result = <<"price">>
             ELSE chk.result = <<>>

C2_Witness ==
    /\ chk.done
    /\ chk.agent = "action"
    /\ chk.method = "create_product"
    /\ DOMAIN chk.params = {"name", "price"}
    /\ chk.params["name"] = "v"
    /\ chk.params["price"] = None
    /\ chk.result = <<"price">>

C4_HistoryKeepsNewest ==
    /\ Len(history) <= max_history
    /\ Len(history) = Min(clock, max_history)
    /\ \A i \in 1..Len(history) : history[i].timestamp = clock - Len(history) + i

C4_Witness ==
    /\ max_history = DefaultMaxHistory
    /\ clock = DefaultMaxHistory + 1
    /\ Len(history) = DefaultMaxHistory
    /\ history[1].timestamp = 2

\* C5: when the resolved intent passes validation and names a registered
\* agent, the handler runs with the intent's method and params, and when it
\* returns text that text is the response.
C5_HandlerRunsIntent ==
    (pc = "done" /\ Resolved /\ missing_params = <<>>
       /\ response_data.agent \in AgentNames)
        => /\ handled = <<[method |-> response_data.method,
                           params |-> response_data.params]>>
           /\ respKind = "handler" => response.val \in HandlerTexts

\* the agent name of the language model's JSON object, None when it has none
ReplyAgent(r) == DictGet(parse_content(r.val).val.obj, "agent", None)

ReplyIsObject(r) ==
    /\ r.ok
    /\ parse_content(r.val).ok
    /\ parse_content(r.val).val.type = "object"

Malformed(r) ==
    /\ r.ok
    /\ LET v == json_loads(StripFenceAnyTag(Strip(r.val)))
       IN  \/ ~v.ok
           \/ /\ v.val.type = "object"
              /\ ~({"agent", "method", "params"} \subseteq DOMAIN v.val.obj)

\* C8: when the backend's output is not parseable JSON, or is a JSON object
\* lacking agent, method or params, the response is the invalid_format
\* message and not a message of another category.
C8_MalformedGivesInvalidFormat ==
    (pc = "done" /\ llmCalls = 1 /\ Malformed(llm_reply))
        => /\ CategoryOf(respKind) = "invalid_format"
           /\ response = get_error_message(messages, "invalid_format", EmptyDict)

\* C9: one message makes at most one language-model request and at most one
\* handler call and is answered exactly once; a failed or malformed reply ends
\* the processing of the message, with no second request and no handler call.
C9_ProcessedOnce ==
    /\ llmCalls <= 1
    /\ handlerCalls <= 1
    /\ returned <= 1
    /\ pc # "idle" => returned = 0
    /\ (pc = "idle" /\ llmCalls >= 1) => returned = 1
    /\ (llmCalls >= 1 /\ ~query_llm(llm_reply).ok)
          => /\ pc \in {"done", "idle"}
             /\ llmCalls = 1
             /\ handlerCalls = 0

C9_Witness ==
    /\ pc = "idle"
    /\ returned = 1
    /\ llmCalls = 1
    /\ llm_reply.ok
    /\ ~query_llm(llm_reply).ok
    /\ handlerCalls = 0

\* C10: when handle_user_message returns the handler's response, the newest
\* turn of the history records this message, this response, the agent and the
\* method: it was appended before the return.
C10_SuccessIsRecorded ==
    (pc \in {"done", "idle"} /\ respKind = "handler")
        => /\ Len(history) > 0
           /\ history[Len(history)] =
                Interaction(clock, user_message, response.val,
                            response_data.agent, response_data.method)

C10_Witness ==
    /\ pc = "done"
    /\ respKind = "handler"
    /\ Len(history) = 2
    /\ history[2].user_message = user_message
    /\ history[2].system_response = response.val

\* the step in which the call of line 117 is made and its outcome handled
DispatchStep == pc = "dispatch" /\ pc' = "done"

\* C11 as stated: every exchange that was dispatched appends a turn for its
\* message to the history, whether the handler returned text, returned an
\* empty response or raised.
C11_TurnAfterEveryDispatch ==
    [][DispatchStep
         => /\ Len(history') = Len(history) + 1
            /\ history'[Len(history')].user_message = user_message]_vars

\* C11 amended: a dispatched exchange appends its turn exactly when the
\* handler returned a non-empty response; when the handler raised or returned
\* an empty response the history is left as it was, and no other step of
\* handle_user_message changes the history.
C11_TurnOnlyOnSuccess ==
    [][/\ (DispatchStep /\ respKind' = "handler")
            => /\ Len(history') = Len(history) + 1
               /\ history'[Len(history')].user_message = user_message
               /\ history'[Len(history')].system_response = response'.val
               /\ SubSeq(history', 1, Len(history)) = history
       /\ (DispatchStep /\ respKind' # "handler") => history' = history
       /\ ~DispatchStep => history' = history]_vars

C11_Witness ==
    /\ pc = "done"
    /\ handlerCalls = 1
    /\ respKind \in {"agent_error", "empty"}
    /\ Len(history) = 1
    /\ history[1].timestamp = 1

\* the keyword sets of the capability domains (spec section 4.1)
ActionKeywords == {"create", "add", "update", "change", "delete", "remove"}

InformationKeywords ==
    {"show", "display", "how-many", "products", "report", "sales", "coupons", "discounts"}

HasKeyword(msg, keywords) == \E i \in 1..Len(msg) : msg[i] \in keywords

\* C12: a message that contains both an Action keyword and an Information
\* keyword is routed to the action agent: when its exchange reaches the
\* dispatch, the agent chosen is "action" and never "info".
C12_ActionKeywordWins ==
    (/\ pc \in {"dispatch", "done"}
     /\ Resolved
     /\ LookupAgent(response_data.agent)
     /\ missing_params = <<>>
     /\ HasKeyword(user_message, ActionKeywords)
     /\ HasKeyword(user_message, InformationKeywords))
        => response_data.agent = "action"

\* the call's reply is the JSON text b inside one of the given wrappings
SameAsBare(b) ==
    /\ query_llm(llm_reply) = query_llm(Ok(Bare(b)))
    /\ pc = "validate" => response_data = query_llm(Ok(Bare(b))).val.obj

\* C20 as stated: a reply wrapped in an opening fence, with or without the
\* json tag, and a closing fence gives the same {agent, method, params}
\* result (or the same failure) as the same JSON text without the fence.
C20_AnyFenceRoundTrip ==
    (llmCalls = 1 /\ llm_reply.ok)
        => \A b \in Bodies :
              llm_reply.val \in {FencedJson(b), FencedJsonTight(b), FencedPlain(b)}
                  => SameAsBare(b)

\* C20 amended: a reply wrapped in an opening fence with the json tag and a
\* closing fence gives the same {agent, method, params} result (or the same
\* failure) as the same JSON text without the fence.
C20_JsonFenceRoundTrip ==
    (llmCalls = 1 /\ llm_reply.ok)
        => \A b \in Bodies :
              llm_reply.val \in {FencedJson(b), FencedJsonTight(b)} => SameAsBare(b)

C20_Witness ==
    /\ pc = "validate"
    /\ llm_reply = Ok(FencedJson("d_create"))
    /\ response_data = [agent |-> "action", method |-> "create_product",
                        params |-> [name |-> "X", price |-> "99"]]

\* the conversation whose call appended the turn of timestamp ts
ConvOfTurn(ts) == tasks[CHOOSE t \in 1..MaxCalls : tasks[t].turn = ts].conv

InProgress == {t \in 1..MaxCalls : tasks[t].pc \notin {"new", "done"}}

\* C15: two messages of one conversation are never in progress at once; a
\* call reads its context after every earlier call of the conversation has
\* appended its turn, and the turns of a conversation are appended in the
\* order in which their calls started.
C15_OneAtATime ==
    \A t, u \in StartedTasks :
        (u < t /\ tasks[u].conv = tasks[t].conv)
            => /\ ~({t, u} \subseteq InProgress)
               /\ tasks[u].pc = "done"
               /\ tasks[u].turn # 0 => tasks[u].turn <= tasks[t].readAt
               /\ (tasks[u].turn # 0 /\ tasks[t].turn # 0) => tasks[u].turn < tasks[t].turn

C15_Witness ==
    /\ tasks[1].conv = tasks[2].conv
    /\ tasks[1].turn = 1
    /\ tasks[2].turn = 2
    /\ tasks[2].ctxTurns = {1}
    /\ Len(history) = 2

\* the operation keywords handle_message looks for
OperationKeywords ==
    { KeywordShippingZone, KeywordShippingMethod, KeywordOrderStatus, KeywordOrderNote,
      KeywordRefund, KeywordStockQuantity, KeywordThreshold, KeywordGallery,
      KeywordAddProduct, KeywordPaymentMethod, KeywordPerformPayment,
      KeywordProcessPayment }

\* no extractor matches the message and it holds no operation keyword
Unrecognized(message) ==
    /\ \A name \in ExtractorNames : Extract(name, message, SuffixMin) = NoneResult
    /\ \A keyword \in OperationKeywords : ~Contains(Lower(message), keyword)

\* C13: the fallback response is a non-empty string produced without
\* raising: handle_message returns the capability menu for a message that
\* matches no extractor and no operation keyword, and get_help_message
\* returns a non-empty text for no category, a known category and an unknown
\* one, whatever templates were loaded.
C13_FallbackNonEmpty ==
    /\ (agent_pc = "handled" /\ Unrecognized(agent_message))
           => /\ agent_response = CapabilityMenu
              /\ agent_response.kind = "str"
              /\ Len(agent_response.text) > 0
    /\ agent_pc = "helped" => (help_response.ok /\ Len(help_response.val) > 0)

GeneratesCode(name, message) ==
    /\ name = "coupon_info"
    /\ re_search(PercentPattern, message).found \/ re_search(AmountPattern, message).found
    /\ ~re_search(CodePattern, message).found

\* the text without its last k tokens
DropLast(text, k) == SubSeq(text, 1, Len(text) - k)

\* the number of digits of the suffix
SuffixLen == Len(DecimalDigits(SuffixMax))

CodeTokens == LatinWords \cup Digits \cup {"-", "_"}

\* the leading tokens of the text that are in the set
RECURSIVE LeadingRun(_, _)
LeadingRun(text, set) ==
    IF Len(text) = 0 \/ Head(text) \notin set THEN <<>>
    ELSE <<Head(text)>> \o LeadingRun(Tail(text), set)

\* the code written in the message: what follows "code coupon" and white
\* space, up to the next white space; <<>> when the message has none
ExplicitCode(message) ==
    IF Contains(message, <<"code", " ", "coupon", " ">>)
      THEN LeadingRun(LStrip(AfterFirst(message, <<"code", " ", "coupon">>)),
                      {message[i] : i \in 1..Len(message)} \ Whitespace)
      ELSE <<>>

\* the part of the written code that the extractor accepts
AcceptedCode(message) == LeadingRun(ExplicitCode(message), CodeTokens)

\* prefix, amount, "_" and a number of 1000..9999
IsGenerated(code, prefix, amount) ==
    /\ Len(code) = Len(amount) + 2 + SuffixLen
    /\ DropLast(code, SuffixLen) = <<prefix>> \o amount \o <<"_">>
    /\ \A i \in 1..SuffixLen : code[Len(code) - SuffixLen + i] \in Digits
    /\ code[Len(code) - SuffixLen + 1] # "0"

\* what _extract_coupon_info must return for the message, explicit being
\* the code the message gives (<<>> for none)
CouponRule(message, r, explicit) ==
    LET percent_match == re_search(PercentPattern, message)
        amount_match  == re_search(AmountPattern, message)
        match  == IF percent_match.found THEN percent_match ELSE amount_match
        kind   == IF percent_match.found THEN "percent" ELSE "fixed_cart"
        prefix == IF percent_match.found THEN "SALE" ELSE "FIXED"
    IN  IF ~percent_match.found /\ ~amount_match.found THEN r = NoneResult
        ELSE /\ r.kind = "dict"
             /\ r.d.discount_type = PyStr(<<kind>>)
             /\ r.d.amount = PyStr(G(match, 1))
             /\ r.d.code.t = "str"
             /\ IF Len(explicit) > 0 THEN r.d.code.v = explicit
                ELSE IsGenerated(r.d.code.v, prefix, G(match, 1))

Blank(value) ==
    \/ value.t = "none"
    \/ value.t \in {"str", "list"} /\ Len(value.v) = 0
    \/ value.t = "dict" /\ DOMAIN value.v = {}

\* C18: an extractor returns no match or a parameter set whose every field
\* was supplied by the message: no returned set is empty or holds a null or
\* empty value.
C18_ExtractorsConservative ==
    \A i \in 1..Len(results) :
        results[i].kind = "dict"
            => /\ DOMAIN results[i].d # {}
               /\ \A k \in DOMAIN results[i].d : ~Blank(results[i].d[k])

\* the operations handle_message recognizes by a keyword: the keyword, the
\* extractor of the operation (None where the class defines none) and the
\* operation named in its usage hint
KeywordOperations ==
    { <<KeywordShippingZone,   "shipping_zone_info",       "shipping zone">>,
      <<KeywordShippingMethod, "shipping_method_info",     "shipping method">>,
      <<KeywordOrderStatus,    "order_status_update_info", "order status">>,
      <<KeywordOrderNote,      "order_note_info",          "order note">>,
      <<KeywordRefund,         "refund_info",              "refund">>,
      <<KeywordStockQuantity,  "stock_quantity_info",      "stock quantity">>,
      <<KeywordThreshold,      "threshold_info",           "low stock threshold">>,
      <<KeywordGallery,        "gallery_update_info",      "gallery">>,
      <<KeywordAddProduct,     "product_info",             "add product">>,
      <<KeywordPaymentMethod,  None,                       "payment method">>,
      <<KeywordPerformPayment, None,                       "process payment">>,
      <<KeywordProcessPayment, None,                       "process payment">> }

\* the commands handle_message tries before it looks for keywords
CommandExtractors ==
    { "shipping_zone_command", "shipping_label_command", "tracking_command",
      "payment_command", "customer_info", "points_info", "role_info" }

\* the message holds the keyword of the operation and of no other one, no
\* command matches it, and the operation's extractor finds nothing in it
KeywordWithoutMatch(message, op) ==
    /\ Contains(Lower(message), op[1])
    /\ \A other \in KeywordOperations :
          Contains(Lower(message), other[1]) => other[3] = op[3]
    /\ \A name \in CommandExtractors : Extract(name, message, SuffixMin) = NoneResult
    /\ op[2] # None => ~Truthy(Extract(op[2], message, SuffixMin))
    /\ op[2] # None => Extract(op[2], message, SuffixMin).kind # "raise"

\* C19: when the message holds the keyword of an operation and the
\* operation's extractor returns no match, handle_message answers with that
\* operation's usage hint and makes no commerce API call.
C19_UsageHintOnNoMatch ==
    agent_pc = "handled"
        => \A op \in KeywordOperations :
              KeywordWithoutMatch(agent_message, op)
                  => /\ agent_response = UsageHint(op[3])
                     /\ api_calls = <<>>

\* a call in position p, with calls language-model requests made, the reply
\* reply and the intent data, has ended or is about to return without
\* reaching line 117: the language-model response failed or could not be
\* parsed, a required parameter is missing, or the agent is unknown
StoppedBeforeDispatch(p, calls, reply, data) ==
    /\ p \in {"done", "idle"}
    /\ calls = 1
    /\ \/ ~query_llm(reply).ok
       \/ SomeRequiredMissing(data.agent, data.method, data.params)
       \/ data.agent \notin AgentNames

StopsBeforeDispatch == StoppedBeforeDispatch(pc, llmCalls, llm_reply, response_data)

\* C30: when handle_user_message stops before dispatch (missing parameters,
\* unknown agent, or a failed or unparseable language-model response), the
\* conversation history is what it was before the call: no step of the call
\* before the dispatch changes the history, and neither does the step that
\* ends such a call.
C30_EarlyStopKeepsHistory ==
    [][ (\/ pc # "dispatch"
         \/ StoppedBeforeDispatch(pc', llmCalls', llm_reply', response_data'))
            => history' = history ]_vars

C30_Witness ==
    /\ pc = "done"
    /\ StopsBeforeDispatch
    /\ respKind = "not_found"
    /\ handlerCalls = 0
    /\ Len(history) = 1

\* the last k elements of a list
LastTurns(hist, k) == SubSeq(hist, Len(hist) - k + 1, Len(hist))

\* C26: for every n >= 0 and every history, get_recent_context(n) renders
\* exactly the last min(n, len(history)) turns, oldest first, each as a user
\* line followed by a system line; it renders no turn when n = 0 and returns
\* the empty string when the history is empty.
C26_RendersLastTurns ==
    num_requested # <<>>
        => /\ context = Join(RenderContext(LastTurns(history,
                                 Min(num_requested[1], Len(history)))), "\n")
           /\ num_requested[1] = 0 => context = EmptyStr
           /\ history = <<>> => context = EmptyStr

\* C27: for every message, ActionAgent.handle_message completes with a plain
\* non-empty string: no branch (the gallery update, payment-method,
\* process-payment and exchange-rate branches included) completes with no
\* value, with an unawaited asynchronous result, or with an exception.
C27_ReturnsPlainString ==
    agent_pc = "handled"
        => /\ agent_response.kind = "str"
           /\ agent_response.text # EmptyStr

\* an order-status update message for order k and status s; note is the text
\* after the note label, None when the message has no note
StatusUpdateMessage(k, s, note) ==
    <<"update", " ", "status", " ", "order", " ">> \o k \o <<" ", "l">> \o s
        \o (IF note = None THEN <<>> ELSE <<" ", "note", ":">> \o note)

OrderIds == { <<"1", "2", "3">> }

StatusWords == { <<"completed">> }

\* no note; a one-word note; a note with white space around it; a note of
\* two lines
NoteTexts ==
    { None,
      <<" ", "delayed">>,
      <<" ", " ", "delayed", " ", "damaged", " ">>,
      <<" ", "delayed", "\n", "damaged">> }

StatusUpdateCalled ==
    /\ agent_pc = "extracting"
    /\ extractor = "order_status_update_info"

\* C22: _extract_order_status_update_info, on an order-status update message
\* that references order id K with target status S and an optional trailing
\* note, returns order_id = K as an integer, status = S, and note = the full
\* note text with leading and trailing whitespace removed (the empty string
\* when there is no note); it returns no match when the order id or the
\* status is missing.
C22_StatusUpdateExtracted ==
    StatusUpdateCalled
        => /\ \A k \in OrderIds, s \in StatusWords, note \in NoteTexts :
                 agent_message = StatusUpdateMessage(k, s, note)
                    => results[Len(results)] =
                          Dict([ order_id |-> PyInt(k),
                                 status   |-> PyStr(s),
                                 note     |-> IF note = None THEN PyStr(EmptyStr)
                                                             ELSE PyStr(Strip(note)) ])
           /\ agent_message \in { <<"update", " ", "status", " ", "order", " ", "1", "2", "3">>,
                                  <<"update", " ", "status", " ", "order", " ", "l", "completed">> }
                 => results[Len(results)] = NoneResult

\* 'add product named N at price P'
AddProductMessage(n, p) ==
    <<"add", " ", "product", " ", "b", "name", " ">> \o n \o <<" ", "b", "price", " ">> \o p

\* names without a digit: a word, and words that are also the phrase of the
\* transaction-history command
ProductNames == { <<"shirt">>, <<"show", " ", "history", " ", "transactions">> }

ProductPrices == { <<"7", "0">> }

\* C21: for an add-product message of the form 'add product named N at price
\* P' (N containing no digit, P a digit string), handle_message issues exactly
\* one product-creation call carrying {name: N, regular_price: P, type:
\* simple, stock_status: instock} and, when the commerce API answers 201,
\* returns a confirmation string containing the product name; when the name
\* or the price is missing it issues no call.
C21_AddProductCreatesProduct ==
    agent_pc = "handled"
        => /\ \A n \in ProductNames, p \in ProductPrices :
                 agent_message = AddProductMessage(n, p)
                    => /\ api_calls =
                            << [ method |-> "create_product",
                                 args   |-> [ product_data |-> PyDict(
                                     [ name          |-> PyStr(n),
                                       regular_price |-> PyStr(p),
                                       type          |-> PyStr(<<"simple">>),
                                       stock_status  |-> PyStr(<<"instock">>) ]) ] ] >>
                       /\ store_outcome = "succeeded"
                            => /\ agent_response.kind = "str"
                               /\ Contains(agent_response.text, n)
           /\ agent_message \in { <<"add", " ", "product", " ", "b", "name", " ", "shirt">>,
                                  <<"add", " ", "product", " ", "b", "price", " ", "7", "0">> }
                 => api_calls = <<>>

-----------------------------------------------------------------------------
(* The operations called on the store directly *)

\* the calls of one operation in the log
CallsOf(op) == {i \in 1..Len(op_log) : op_log[i].op = op}

\* the requests of a call sent to a sub-resource of an order
SentTo(call, verb, sub) ==
    {k \in 1..Len(call.sent) :
        /\ call.sent[k].verb = verb
        /\ call.sent[k].path.resource = "orders"
        /\ call.sent[k].path.sub = sub}

\* the order a call read: its first request is GET orders/{id}, answered 200
ReadOrder(call) == Answered(call.sent[1].answer, 200)

OrderRead(call) == call.sent[1].answer.body[1]

\* C28: process_refund never submits or reports a refund amount greater than
\* the order's total: when the requested amount exceeds the total, the amount
\* of the refund request, of the manual-refund note and of the success
\* message is the total, and otherwise it is the requested amount.
C28_RefundAmountClamped ==
    \A i \in CallsOf("process_refund") :
        LET call  == op_log[i]
            total == OrderRead(call).total
            used  == IF call.args.amount > total THEN total ELSE call.args.amount
        IN  ReadOrder(call) =>
              /\ used <= total
              /\ \A k \in SentTo(call, "POST", "refunds") :
                    call.sent[k].data.amount = used
              /\ \A k \in SentTo(call, "POST", "notes") :
                    call.sent[k].data.note.amount = used
              /\ call.result.kind = "refund performed"
                    => call.result.shown.amount = used

\* a refund of more than the order's total that the refunds endpoint refused
\* and that was performed by hand: the request, the note and the message
C28_Witness ==
    \E i \in CallsOf("process_refund") :
        /\ ReadOrder(op_log[i])
        /\ op_log[i].args.amount > OrderRead(op_log[i]).total
        /\ OrderRead(op_log[i]).total > 0
        /\ SentTo(op_log[i], "POST", "refunds") # {}
        /\ SentTo(op_log[i], "POST", "notes") # {}
        /\ op_log[i].result.kind = "refund performed"

\* the messages of process_refund that tell an error
RefundErrors == {"refund error", "order details error", "order status update error",
                 "note error"}

\* C24: whenever process_refund returns the refund-performed message, the
\* refund was recorded: the refunds endpoint accepted the request (200 or
\* 201), or the order's status was set to refunded and the customer note of
\* the manual refund was posted (201); otherwise it returns an error string.
C24_SuccessMeansRecorded ==
    \A i \in CallsOf("process_refund") :
        LET call     == op_log[i]
            accepted == \E k \in SentTo(call, "POST", "refunds") :
                            call.sent[k].answer.kind = "response"
                              /\ call.sent[k].answer.status \in {200, 201}
            refunded == \E k \in SentTo(call, "PUT", "") :
                            /\ call.sent[k].data.status = "refunded"
                            /\ call.sent[k].answer.kind = "response"
                            /\ call.sent[k].answer.status = 200
            noted    == \E k \in SentTo(call, "POST", "notes") :
                            /\ call.sent[k].data.customer_note
                            /\ call.sent[k].answer.kind = "response"
                            /\ call.sent[k].answer.status = 201
        IN  IF call.result.kind = "refund performed"
              THEN accepted \/ (refunded /\ noted)
              ELSE call.result.kind \in RefundErrors

\* the refunds endpoint refused the refund (500) and the manual refund went
\* through: the success message with the status set and the note posted
C24_Witness ==
    \E i \in CallsOf("process_refund") :
        /\ op_log[i].result.kind = "refund performed"
        /\ \E k \in SentTo(op_log[i], "POST", "refunds") :
              op_log[i].sent[k].answer.kind = "response"
                /\ op_log[i].sent[k].answer.status = 500
        /\ \E k \in SentTo(op_log[i], "POST", "notes") :
              op_log[i].sent[k].answer.kind = "response"
                /\ op_log[i].sent[k].answer.status = 201

\* the operations that move an order to another status after looking at it
StatusOps == {"approve_order", "reject_order", "cancel_order"}

\* the requests of a call other than the GET that reads the order
ChangesOf(call) == {k \in 1..Len(call.sent) : call.sent[k].verb # "GET"}

\* C25: approve_order sends a status update (to processing) only when the
\* order's status is pending; reject_order and cancel_order send one (to
\* cancelled) only when the status is none of completed, refunded,
\* cancelled; in every refused case no update, restock or note request is
\* sent and a refusal message naming the current status is returned.
C25_StatusGuards ==
    \A i \in 1..Len(op_log) :
        LET call    == op_log[i]
            status  == OrderRead(call).status
            found   == ReadOrder(call) /\ OrderRead(call) # EmptyOrder
            allowed == IF call.op = "approve_order" THEN status = "pending"
                       ELSE status \notin {"completed", "refunded", "cancelled"}
            target  == IF call.op = "approve_order" THEN "processing" ELSE "cancelled"
        IN  call.op \in StatusOps =>
              /\ \A k \in SentTo(call, "PUT", "") :
                    /\ found /\ allowed
                    /\ call.sent[k].data.status = target
              /\ found /\ ~allowed =>
                    /\ ChangesOf(call) = {}
                    /\ call.result.kind = "refused"
                    /\ call.result.shown.status = status

\* an order that is refused and one that is moved: cancel_order, asked to
\* restock, refuses a completed order that has line items; or approve_order
\* moves a pending order to processing
C25_Witness ==
    \E i \in CallsOf("cancel_order") :
        /\ op_log[i].args.restock
        /\ ReadOrder(op_log[i])
        /\ OrderRead(op_log[i]).status = "completed"
        /\ OrderRead(op_log[i]).line_items # <<>>
        /\ op_log[i].result.kind = "refused"

ItemsOf(op, st) == IF op = "delete_product" THEN st.products ELSE st.categories

\* the message both delete operations return for a deletion
DeletedMessage(call) ==
    call.result = Message(IF call.op = "delete_product" THEN "product deleted"
                          ELSE "category deleted", [name |-> call.args.name])

\* the number of items of exactly the given name
CountNamed(items, name) ==
    Cardinality({k \in 1..Len(items) : items[k].name = name})

\* every request of the call was answered with a success status
AnsweredWell(call) ==
    \A k \in 1..Len(call.sent) :
        /\ call.sent[k].answer.kind = "response"
        /\ call.sent[k].answer.status \in {200, 204}

\* the step is a delete call: it appends one call of a delete operation
DeleteStep(log, log2) ==
    /\ Len(log2) = Len(log) + 1
    /\ log2[Len(log2)].op \in DeleteOps

\* the call follows a call of the same operation with the same name
SecondOfTwo(log, call) ==
    /\ log # <<>>
    /\ log[Len(log)].op = call.op
    /\ log[Len(log)].args.name = call.args.name

====
